---------------------------- MODULE Spec2Model ----------------------------
(***************************************************************************)
(* A model of the algo-trading core: the paper account (PaperBroker), the  *)
(* risk sizer (RiskManager) and the backtest replay engine.                *)
(*                                                                         *)
(* Python floats are modelled as exact rationals <<n, d>> (d > 0, lowest   *)
(* terms); None is the empty tuple.  OrderResult.order_id (a fresh uuid4)  *)
(* is left out of the records: it is the only source of entropy and no     *)
(* operation reads it.                                                     *)
(***************************************************************************)
EXTENDS Integers, Sequences, FiniteSets, TLC

-----------------------------------------------------------------------------
(* Exact rational arithmetic standing for float arithmetic.                *)

Abs(x) == IF x < 0 THEN -x ELSE x

RECURSIVE Gcd(_, _)
Gcd(a, b) == IF b = 0 THEN a ELSE Gcd(b, a % b)

\* The fraction n/d in lowest terms with a positive denominator.
Rat(n, d) ==
    LET g == Gcd(Abs(n), Abs(d))
        s == IF d < 0 THEN -1 ELSE 1
    IN  <<s * (n \div g), Abs(d) \div g>>

Int2R(i) == <<i, 1>>
Zero == <<0, 1>>
One  == <<1, 1>>
None == <<>>

Lcm(a, b) == (a \div Gcd(a, b)) * b

RAdd(a, b) ==
    LET l == Lcm(a[2], b[2])
    IN  Rat(a[1] * (l \div a[2]) + b[1] * (l \div b[2]), l)

RNeg(a) == <<-a[1], a[2]>>

RSub(a, b) == RAdd(a, RNeg(b))

RMul(a, b) ==
    LET g1 == Gcd(Abs(a[1]), b[2])
        g2 == Gcd(Abs(b[1]), a[2])
    IN  Rat((a[1] \div g1) * (b[1] \div g2), (a[2] \div g2) * (b[2] \div g1))

\* a / b for b # 0 (the callers test b = 0 where Python would raise).
RDiv(a, b) == RMul(a, Rat(b[2], b[1]))

\* a <= b, by comparing integer parts and then the inverted fractional
\* parts, so that no cross product is formed (1e-9 has denominator 10^9).
RECURSIVE RLe(_, _)
RLe(a, b) ==
    LET ia == a[1] \div a[2]
        ib == b[1] \div b[2]
        ra == a[1] % a[2]
        rb == b[1] % b[2]
    IN  IF ia # ib THEN ia < ib
        ELSE IF ra = 0 THEN TRUE
        ELSE IF rb = 0 THEN FALSE
        ELSE RLe(<<b[2], rb>>, <<a[2], ra>>)

RLt(a, b) == ~RLe(b, a)
RGt(a, b) == ~RLe(a, b)
RGe(a, b) == RLe(b, a)

\* Python's min(a, b): b only when b < a.
RMin(a, b) == IF RLt(b, a) THEN b ELSE a
\* Python's max(a, b): b only when b > a.
RMax(a, b) == IF RGt(b, a) THEN b ELSE a

RECURSIVE Pow10(_)
Pow10(k) == IF k = 0 THEN 1 ELSE 10 * Pow10(k - 1)

\* floor(x * 10^k) and the remainder left over d, for x = f + r/d, digit by
\* digit as in long division, so that no product larger than 10 * d is formed.
RECURSIVE ShiftDigits(_, _, _, _)
ShiftDigits(f, r, d, k) ==
    IF k = 0 THEN <<f, r>>
    ELSE ShiftDigits(10 * f + ((10 * r) \div d), (10 * r) % d, d, k - 1)

\* Python's round(x, k): to the nearest multiple of 10^-k, ties to even.
RRound(x, k) ==
    LET s  == ShiftDigits(x[1] \div x[2], x[1] % x[2], x[2], k)
        f  == s[1]
        r2 == 2 * s[2]
        i  == IF r2 < x[2] THEN f
              ELSE IF r2 > x[2] THEN f + 1
              ELSE IF f % 2 = 0 THEN f ELSE f + 1
    IN  Rat(i, Pow10(k))

-----------------------------------------------------------------------------
(* Inputs the operations are called with.                                  *)

Symbols == {"A", "B"}

\* Strings a caller passes as the side; place_order upper-cases them.
Sides == {"BUY", "sell"}

\* Reference prices of orders.
Prices == {Int2R(10), Int2R(12)}

\* Prices update_price marks a position to.
MarkPrices == {Int2R(11)}

\* Order quantities a well-behaved caller sends.
ValidQuantities == {Int2R(1), Int2R(2)}

\* Order quantities the interface accepts: place_order does not validate them.
AnyQuantities == {Int2R(-1), Int2R(0), Int2R(1)}

\* Positive order quantities, one of them far above any open quantity.
OversellQuantities == {Int2R(1), Int2R(400)}

\* Reference prices of the orders sent with unvalidated quantities.
AnyQtyPrices == {Int2R(10)}

StopLosses == {Int2R(9)}

\* Constructor arguments <<initial_capital, commission_pct, slippage_pct>>.
BrokerParams ==
    { <<Int2R(34), Zero, Zero>>,
      <<Int2R(25), Rat(1, 100), Rat(1, 10)>> }

\* The longest fill ledger explored.
MaxLog == 3

\* No order is sent once |cash| exceeds this (a BUY that raises moves cash
\* without growing the ledger).
MaxCash == 45

-----------------------------------------------------------------------------
(* PaperBroker: the paper account.                                         *)

VARIABLES
    cash,             \* PaperBroker.cash
    initial_capital,  \* PaperBroker.initial_capital
    commission_pct,   \* PaperBroker.commission_pct
    slippage_pct,     \* PaperBroker.slippage_pct
    positions,        \* PaperBroker._positions, as the set of its values
    trade_log,        \* PaperBroker._trade_log
    result            \* what the last call returned (or that it raised)

brokerVars ==
    <<cash, initial_capital, commission_pct, slippage_pct, positions,
      trade_log, result>>

\* The broker object as one value.
Self ==
    [cash |-> cash, initial_capital |-> initial_capital,
     commission_pct |-> commission_pct, slippage_pct |-> slippage_pct,
     positions |-> positions, trade_log |-> trade_log]

\* config.Settings defaults.
INITIAL_CAPITAL == 100000
COMMISSION_PCT == Rat(1, 1000)
SLIPPAGE_PCT == Rat(5, 10000)

\* PaperBroker.__init__: `initial_capital or default`, so None and 0 both
\* give the default; the two rates default only when None.
PaperBrokerNew(ic, cp, sp) ==
    LET c == IF ic = None \/ ic = Zero THEN Int2R(INITIAL_CAPITAL) ELSE ic
    IN  [cash |-> c, initial_capital |-> c,
         commission_pct |-> IF cp = None THEN COMMISSION_PCT ELSE cp,
         slippage_pct |-> IF sp = None THEN SLIPPAGE_PCT ELSE sp,
         positions |-> {}, trade_log |-> <<>>]

\* _OpenPosition.__init__
OpenPosition(symbol, side, quantity, entry_price, current_price, stop_loss) ==
    [symbol |-> symbol, side |-> side, quantity |-> quantity,
     entry_price |-> entry_price, current_price |-> current_price,
     stop_loss |-> stop_loss]

\* OrderResult (order_id left out).
OrderResult(symbol, side, quantity, price, status, commission, message) ==
    [symbol |-> symbol, side |-> side, quantity |-> quantity, price |-> price,
     status |-> status, commission |-> commission, message |-> message]

\* What a call that raised leaves in place of a return value.
Raised(exc) == [status |-> "RAISED", message |-> exc]

\* What a call that returns None leaves: the name of the call.
Void(call) == [status |-> "NONE", message |-> call]

\* str.upper on the side strings.
Upper(side) == IF side = "buy" THEN "BUY" ELSE IF side = "sell" THEN "SELL" ELSE side

\* `symbol in self._positions`
HasPosition(ps, symbol) == \E p \in ps : p.symbol = symbol

\* `self._positions[symbol]`
PositionOf(ps, symbol) == CHOOSE p \in ps : p.symbol = symbol

\* `self._positions[symbol] = pos` for a symbol not in the dict, and the
\* in-place update of the record stored under an existing key.
StorePosition(ps, pos) == {p \in ps : p.symbol # pos.symbol} \cup {pos}

\* `self._positions.clear()` in place of the del.
DeleteAllPositions(ps, symbol) == {}

\* `del self._positions[symbol]`
DeletePosition(ps, symbol) == {p \in ps : p.symbol # symbol}

\* The residual quantity at or below which a position is deleted.
Dust == <<1, 1000000000>>

\* `pos.quantity <= 1e-9`
IsDust(quantity) == RLe(quantity, Dust)

\* The fill price: slippage against the trader.
FillPrice(self, side, price) ==
    IF side = "BUY"
    THEN RMul(price, RAdd(One, self.slippage_pct))
    ELSE RMul(price, RSub(One, self.slippage_pct))

\* The funds check made against the starting capital instead of the cash.
InsufficientFundsVsInitial(self, total_cost) == RGt(total_cost, self.initial_capital)

\* `total_cost > self.cash`
InsufficientFunds(self, total_cost) == RGt(total_cost, self.cash)

\* A rejection that is written to the ledger like a fill.
RejectLogged(self, symbol, side, price, message) ==
    LET ret == OrderResult(symbol, side, Zero, price, "REJECTED", Zero, message)
    IN  [self |-> [self EXCEPT !.trade_log = Append(@, ret)], ret |-> ret]

\* A REJECTED return: the account is not touched.
Reject(self, symbol, side, price, message) ==
    [self |-> self,
     ret |-> OrderResult(symbol, side, Zero, price, "REJECTED", Zero, message)]

\* The plain mean of the two prices in place of the weighted one.
MergeEntryPriceUnweighted(pos, fill_price, quantity, new_qty) ==
    RDiv(RAdd(pos.entry_price, fill_price), Int2R(2))

\* The BUY branch's merged entry price.
MergeEntryPrice(pos, fill_price, quantity, new_qty) ==
    RDiv(RAdd(RMul(pos.entry_price, pos.quantity), RMul(fill_price, quantity)), new_qty)

\* The fill size without the cap at the open quantity.
SellQtyUncapped(quantity, pos) == quantity

\* The SELL branch's fill size.
SellQty(quantity, pos) == RMin(quantity, pos.quantity)

\* The end of place_order: the FILLED result is appended to the ledger.
Filled(self, ret) == [self |-> [self EXCEPT !.trade_log = Append(@, ret)], ret |-> ret]

\* The BUY branch after the funds check.  A ZeroDivisionError in the merge
\* leaves the debit in place and nothing else.
BuyFill(self, symbol, quantity, fill_price, total_cost, stop_loss, ret) ==
    LET debited == [self EXCEPT !.cash = RSub(self.cash, total_cost)]
    IN  IF HasPosition(self.positions, symbol) THEN
            LET pos == PositionOf(self.positions, symbol)
                new_qty == RAdd(pos.quantity, quantity)
            IN  IF new_qty = Zero THEN
                    [self |-> debited, ret |-> Raised("ZeroDivisionError")]
                ELSE
                    Filled([debited EXCEPT !.positions = StorePosition(@,
                                [pos EXCEPT
                                   !.entry_price = MergeEntryPrice(pos, fill_price, quantity, new_qty),
                                   !.quantity = new_qty,
                                   !.stop_loss = stop_loss])],
                           ret)
        ELSE
            Filled([debited EXCEPT !.positions = StorePosition(@,
                        OpenPosition(symbol, "BUY", quantity, fill_price, fill_price, stop_loss))],
                   ret)

\* The SELL branch for a symbol with an open position.
SellFill(self, symbol, quantity, fill_price, commission, ret) ==
    LET pos == PositionOf(self.positions, symbol)
        sell_qty == SellQty(quantity, pos)
        proceeds == RSub(RMul(fill_price, sell_qty), commission)
        left == RSub(pos.quantity, sell_qty)
    IN  Filled([self EXCEPT
                  !.cash = RAdd(self.cash, proceeds),
                  !.positions = IF IsDust(left)
                                THEN DeletePosition(@, symbol)
                                ELSE StorePosition(@, [pos EXCEPT !.quantity = left])],
               ret)

\* PaperBroker.place_order: the broker afterwards (self) and the value
\* returned (ret).
place_order(self, symbol, side0, quantity, price, stop_loss) ==
    LET side == Upper(side0)
        fill_price == FillPrice(self, side, price)
        cost == RMul(fill_price, quantity)
        commission == RMul(cost, self.commission_pct)
        total_cost == RAdd(cost, commission)
        ret == OrderResult(symbol, side, quantity, RRound(fill_price, 4), "FILLED",
                           RRound(commission, 4), "Order filled")
    IN  IF side = "BUY" THEN
            IF InsufficientFunds(self, total_cost)
            THEN Reject(self, symbol, side, fill_price, "Insufficient funds")
            ELSE BuyFill(self, symbol, quantity, fill_price, total_cost, stop_loss, ret)
        ELSE
            IF ~HasPosition(self.positions, symbol)
            THEN Reject(self, symbol, side, fill_price, "No open position")
            ELSE SellFill(self, symbol, quantity, fill_price, commission, ret)

\* PaperBroker.close_position
close_position(self, symbol, price) ==
    IF ~HasPosition(self.positions, symbol) THEN
        Reject(self, symbol, "SELL", price, "No open position")
    ELSE
        place_order(self, symbol, "SELL", PositionOf(self.positions, symbol).quantity,
                    price, None)

\* An update_price that would mark every open position to the price.
update_price_marks_all(self, symbol, price) ==
    IF HasPosition(self.positions, symbol) THEN
        [self EXCEPT !.positions = {[p EXCEPT !.current_price = price] : p \in self.positions}]
    ELSE self

\* PaperBroker.update_price
update_price(self, symbol, price) ==
    IF HasPosition(self.positions, symbol) THEN
        [self EXCEPT !.positions =
            StorePosition(@, [PositionOf(self.positions, symbol) EXCEPT
                                 !.current_price = price])]
    ELSE self

\* PaperBroker.get_balance
get_balance(self) == RRound(self.cash, 2)

\* sum(p.current_price * p.quantity for p in positions)
RECURSIVE PositionValue(_)
PositionValue(ps) ==
    IF ps = {} THEN Zero
    ELSE LET p == CHOOSE q \in ps : TRUE
         IN  RAdd(RMul(p.current_price, p.quantity), PositionValue(ps \ {p}))

\* sum(p.entry_price * p.quantity for p in positions)
RECURSIVE PositionCost(_)
PositionCost(ps) ==
    IF ps = {} THEN Zero
    ELSE LET p == CHOOSE q \in ps : TRUE
         IN  RAdd(RMul(p.entry_price, p.quantity), PositionCost(ps \ {p}))

\* The portfolio valued at entry prices instead of mark prices.
get_portfolio_value_at_cost(self) == RRound(RAdd(self.cash, PositionCost(self.positions)), 2)

\* PaperBroker.get_portfolio_value
get_portfolio_value(self) == RRound(RAdd(self.cash, PositionValue(self.positions)), 2)

\* A reset that forgets the ledger.
reset_keeps_log(self) == [self EXCEPT !.cash = self.initial_capital, !.positions = {}]

\* PaperBroker.reset
reset(self) ==
    [self EXCEPT !.cash = self.initial_capital, !.positions = {}, !.trade_log = <<>>]

\* The broker variables take the fields of b.
SetBroker(b) ==
    /\ cash' = b.cash
    /\ initial_capital' = b.initial_capital
    /\ commission_pct' = b.commission_pct
    /\ slippage_pct' = b.slippage_pct
    /\ positions' = b.positions
    /\ trade_log' = b.trade_log

\* A PaperBroker constructed with params.
BrokerIs(params) ==
    LET b == PaperBrokerNew(params[1], params[2], params[3])
    IN  /\ cash = b.cash
        /\ initial_capital = b.initial_capital
        /\ commission_pct = b.commission_pct
        /\ slippage_pct = b.slippage_pct
        /\ positions = b.positions
        /\ trade_log = b.trade_log
        /\ result = Void("__init__")

InitBroker == \E params \in BrokerParams : BrokerIs(params)

\* The guard that keeps the explored accounts finite.
Bounded ==
    /\ Len(trade_log) < MaxLog
    /\ RLe(Int2R(-MaxCash), cash)
    /\ RLe(cash, Int2R(MaxCash))

\* One call of place_order.
PlaceOrderCall(symbol, side, quantity, price, stop_loss) ==
    LET r == place_order(Self, symbol, side, quantity, price, stop_loss)
    IN  SetBroker(r.self) /\ result' = r.ret

\* One call of close_position.
ClosePositionCall(symbol, price) ==
    LET r == close_position(Self, symbol, price)
    IN  SetBroker(r.self) /\ result' = r.ret

\* A call of place_order with a quantity from Qs, a price from Ps and a
\* stop-loss from SLs.
PlaceOrder(Qs, Ps, SLs) ==
    /\ Bounded
    /\ \E symbol \in Symbols, side \in Sides, quantity \in Qs,
          price \in Ps, stop_loss \in SLs :
          PlaceOrderCall(symbol, side, quantity, price, stop_loss)

\* A call of close_position with a price from Ps.
ClosePosition(Ps) ==
    /\ Bounded
    /\ \E symbol \in Symbols, price \in Ps :
          ClosePositionCall(symbol, price)

UpdatePrice ==
    \E symbol \in Symbols, price \in MarkPrices :
        SetBroker(update_price(Self, symbol, price)) /\ result' = Void("update_price")

Reset ==
    SetBroker(reset(Self)) /\ result' = Void("reset")

-----------------------------------------------------------------------------
(* RiskManager: the risk sizer.                                            *)

\* Constructor arguments <<capital, risk_per_trade, stop_loss_pct,
\* max_position_pct, max_open_positions, max_total_exposure>>.
RiskParams ==
    { <<Int2R(100), Rat(2, 100), Rat(3, 100), Rat(10, 100), 2, Rat(80, 100)>>,
      <<Int2R(50), None, None, None, 1, Int2R(1)>> }

\* Capitals update_capital is called with.
Capitals == {Zero, Int2R(50), Int2R(100)}

\* Prices assess_trade is called with.
RiskPrices == {Int2R(-1), Zero, Int2R(6), Int2R(10)}

\* Exposures assess_trade is called with.
Exposures == {Zero, Int2R(40), Rat(79999999, 1000000), Int2R(80), Int2R(85)}

\* Sides assess_trade is called with.
RiskSides == {"BUY", "sell"}

\* The largest open-position count assess_trade is called with.
MaxCount == 2

\* Peak equities check_drawdown is called with.
Peaks == {Zero, Int2R(50), Int2R(100), Int2R(125), Int2R(130)}

VARIABLES
    capital,             \* RiskManager.capital
    risk_per_trade,      \* RiskManager.risk_per_trade
    stop_loss_pct,       \* RiskManager.stop_loss_pct
    max_position_pct,    \* RiskManager.max_position_pct
    max_open_positions,  \* RiskManager.max_open_positions
    max_total_exposure,  \* RiskManager.max_total_exposure
    risk_call            \* the last call of the RiskManager: arguments and return

riskVars ==
    <<capital, risk_per_trade, stop_loss_pct, max_position_pct,
      max_open_positions, max_total_exposure, risk_call>>

\* The RiskManager object as one value.
RiskSelf ==
    [capital |-> capital, risk_per_trade |-> risk_per_trade,
     stop_loss_pct |-> stop_loss_pct, max_position_pct |-> max_position_pct,
     max_open_positions |-> max_open_positions,
     max_total_exposure |-> max_total_exposure]

\* config.Settings defaults.
RISK_PER_TRADE == Rat(2, 100)
STOP_LOSS_PCT == Rat(3, 100)
MAX_POSITION_SIZE == Rat(10, 100)

\* RiskManager.__init__
RiskManagerNew(cap, rpt, slp, mpp, mop, mte) ==
    [capital |-> IF cap = None \/ cap = Zero THEN Int2R(INITIAL_CAPITAL) ELSE cap,
     risk_per_trade |-> IF rpt = None THEN RISK_PER_TRADE ELSE rpt,
     stop_loss_pct |-> IF slp = None THEN STOP_LOSS_PCT ELSE slp,
     max_position_pct |-> IF mpp = None THEN MAX_POSITION_SIZE ELSE mpp,
     max_open_positions |-> mop,
     max_total_exposure |-> mte]

\* RiskAssessment
RiskAssessment(approved, position_size, stop_loss_price, risk_amount, reason) ==
    [approved |-> approved, position_size |-> position_size,
     stop_loss_price |-> stop_loss_price, risk_amount |-> risk_amount,
     reason |-> reason]

\* A rejection: every number 0.0.
RiskReject(reason) == RiskAssessment(FALSE, Zero, Zero, Zero, reason)

\* RiskManager.update_capital
update_capital(self, new_capital) == [self EXCEPT !.capital = new_capital]

\* `current_exposure / self.capital if self.capital > 0 else 1.0`
ExposureRatio(self, current_exposure) ==
    IF RGt(self.capital, Zero) THEN RDiv(current_exposure, self.capital) ELSE One

\* The three candidate sizes' minimum, floored at 0.
PositionSize(self, price, current_exposure) ==
    LET risk_amount == RMul(self.capital, self.risk_per_trade)
        stop_distance == RMul(price, self.stop_loss_pct)
        by_risk == IF RGt(stop_distance, Zero) THEN RDiv(risk_amount, stop_distance) ELSE Zero
        max_position_value == RMul(self.capital, self.max_position_pct)
        max_qty == IF RGt(price, Zero) THEN RDiv(max_position_value, price) ELSE Zero
        remaining == RSub(RMul(self.max_total_exposure, self.capital), current_exposure)
        max_remaining_qty == IF RGt(price, Zero) THEN RDiv(remaining, price) ELSE Zero
    IN  RMax(RMin(RMin(by_risk, max_qty), max_remaining_qty), Zero)

\* The stop-loss price: below the price for a BUY, above it otherwise.
StopLossPrice(self, price, side) ==
    IF Upper(side) = "BUY"
    THEN RMul(price, RSub(One, self.stop_loss_pct))
    ELSE RMul(price, RAdd(One, self.stop_loss_pct))

\* The exposure check made before the open-position check.
FirstRejectionReordered(self, price, current_exposure, open_position_count) ==
    IF RLe(price, Zero) THEN "Invalid price"
    ELSE IF RGe(ExposureRatio(self, current_exposure), self.max_total_exposure)
         THEN "Total exposure exceeds limit"
    ELSE IF open_position_count >= self.max_open_positions THEN "Max open positions reached"
    ELSE IF RLe(PositionSize(self, price, current_exposure), Zero)
         THEN "Computed position size is zero"
    ELSE ""

\* The checks of assess_trade, in the order the code makes them: the reason
\* of the first that rejects, "" when none does.
\* A limit that rejects only above max_open_positions.
FirstRejectionAboveLimit(self, price, current_exposure, open_position_count) ==
    IF RLe(price, Zero) THEN "Invalid price"
    ELSE IF open_position_count > self.max_open_positions THEN "Max open positions reached"
    ELSE IF RGe(ExposureRatio(self, current_exposure), self.max_total_exposure)
         THEN "Total exposure exceeds limit"
    ELSE IF RLe(PositionSize(self, price, current_exposure), Zero)
         THEN "Computed position size is zero"
    ELSE ""

FirstRejection(self, price, current_exposure, open_position_count) ==
    IF RLe(price, Zero) THEN "Invalid price"
    ELSE IF open_position_count >= self.max_open_positions THEN "Max open positions reached"
    ELSE IF RGe(ExposureRatio(self, current_exposure), self.max_total_exposure)
         THEN "Total exposure exceeds limit"
    ELSE IF RLe(PositionSize(self, price, current_exposure), Zero)
         THEN "Computed position size is zero"
    ELSE ""

\* RiskManager.assess_trade
assess_trade(self, price, side, current_exposure, open_position_count) ==
    LET reason == FirstRejection(self, price, current_exposure, open_position_count)
    IN  IF reason # "" THEN RiskReject(reason)
        ELSE RiskAssessment(TRUE,
                 RRound(PositionSize(self, price, current_exposure), 6),
                 RRound(StopLossPrice(self, price, side), 4),
                 RRound(RMul(self.capital, self.risk_per_trade), 2),
                 "Trade approved")

\* The drawdown threshold of the circuit breaker.
CircuitBreakerLevel == Rat(-20, 100)

\* A check_drawdown whose circuit breaker trips at the level itself.
check_drawdown_inclusive(self, peak_equity) ==
    LET dd == IF RGt(peak_equity, Zero)
              THEN RDiv(RSub(self.capital, peak_equity), peak_equity)
              ELSE Zero
    IN  [current_equity |-> RRound(self.capital, 2),
         peak_equity |-> RRound(peak_equity, 2),
         drawdown_pct |-> RRound(dd, 6),
         circuit_breaker |-> RLe(dd, CircuitBreakerLevel)]

\* RiskManager.check_drawdown
check_drawdown(self, peak_equity) ==
    LET dd == IF RGt(peak_equity, Zero)
              THEN RDiv(RSub(self.capital, peak_equity), peak_equity)
              ELSE Zero
    IN  [current_equity |-> RRound(self.capital, 2),
         peak_equity |-> RRound(peak_equity, 2),
         drawdown_pct |-> RRound(dd, 6),
         circuit_breaker |-> RLt(dd, CircuitBreakerLevel)]

\* The RiskManager variables take the fields of r.
SetRisk(r) ==
    /\ capital' = r.capital
    /\ risk_per_trade' = r.risk_per_trade
    /\ stop_loss_pct' = r.stop_loss_pct
    /\ max_position_pct' = r.max_position_pct
    /\ max_open_positions' = r.max_open_positions
    /\ max_total_exposure' = r.max_total_exposure

\* A RiskManager constructed with params.
RiskIs(params) ==
    LET r == RiskManagerNew(params[1], params[2], params[3], params[4], params[5], params[6])
    IN  /\ capital = r.capital
        /\ risk_per_trade = r.risk_per_trade
        /\ stop_loss_pct = r.stop_loss_pct
        /\ max_position_pct = r.max_position_pct
        /\ max_open_positions = r.max_open_positions
        /\ max_total_exposure = r.max_total_exposure
        /\ risk_call = [call |-> "__init__"]

InitRisk == \E params \in RiskParams : RiskIs(params)

UpdateCapital ==
    \E new_capital \in Capitals :
        /\ SetRisk(update_capital(RiskSelf, new_capital))
        /\ risk_call' = [call |-> "update_capital", new_capital |-> new_capital]

AssessTrade ==
    \E price \in RiskPrices, side \in RiskSides, current_exposure \in Exposures,
       open_position_count \in 0..MaxCount :
        /\ risk_call' = [call |-> "assess_trade", price |-> price, side |-> side,
                         current_exposure |-> current_exposure,
                         open_position_count |-> open_position_count,
                         ret |-> assess_trade(RiskSelf, price, side, current_exposure,
                                              open_position_count)]
        /\ UNCHANGED <<capital, risk_per_trade, stop_loss_pct, max_position_pct,
                       max_open_positions, max_total_exposure>>

CheckDrawdown ==
    \E peak_equity \in Peaks :
        /\ risk_call' = [call |-> "check_drawdown", peak_equity |-> peak_equity,
                         ret |-> check_drawdown(RiskSelf, peak_equity)]
        /\ UNCHANGED <<capital, risk_per_trade, stop_loss_pct, max_position_pct,
                       max_open_positions, max_total_exposure>>

-----------------------------------------------------------------------------
(* BacktestEngine: the replay of a bar series.  A bar is its close; its    *)
(* timestamp is its place in the validated series (1, 2, ...).  A signal   *)
(* is <<timestamp, "BUY" | "SELL" | "HOLD">>, as the strategy returned it. *)

\* Closes of the bars.
Closes == {Int2R(50), Int2R(100)}

\* The longest bar series replayed.
MaxBars == 3

\* The longest signal list a strategy returns.
MaxSignals == 2

\* run() is called at most this often on one engine.
MaxRuns == 2

\* Constructor arguments <<initial_capital, commission_pct, slippage_pct,
\* risk_per_trade, stop_loss_pct>>.
EngineParams ==
    { <<Int2R(100), Zero, Zero, Rat(4, 100), Rat(4, 100)>>,
      <<Int2R(100), Rat(10, 100), Rat(25, 100), Rat(2, 100), Rat(4, 100)>> }

\* Constructor arguments with costs high enough for one losing round trip to
\* leave the running capital negative, and the same with half the risk.
RuinParams ==
    { <<Int2R(100), Rat(50, 100), Rat(25, 100), Rat(4, 100), Rat(4, 100)>>,
      <<Int2R(100), Rat(50, 100), Rat(25, 100), Rat(2, 100), Rat(4, 100)>> }

\* The signals a strategy can return for a series of n bars; a timestamp
\* n + 1 matches no bar.
SignalSet(n) == (1..(n + 1)) \X {"BUY", "SELL"}

\* The signals of a strategy that may also stamp a signal for the first bar
\* with the other offset.
ZonedSignalSet(n) == ((1..(n + 1)) \cup {-1}) \X {"BUY", "SELL"}

\* All sequences over S of length at most n.
SeqsUpTo(S, n) == UNION {[1..k -> S] : k \in 0..n}

VARIABLES
    engine,   \* the BacktestEngine's fields
    df,       \* the validated bar series run() is called with
    signals,  \* strategy.generate_signals(df, symbol)
    frame,    \* the local variables of run() and its place in the loop
    results   \* the BacktestResults run() has returned, in order

engineVars == <<engine, df, signals, frame, results>>

\* BacktestEngine.__init__
BacktestEngineNew(ic, cp, sp, rpt, slp) ==
    [initial_capital |-> IF ic = None \/ ic = Zero THEN Int2R(INITIAL_CAPITAL) ELSE ic,
     commission_pct |-> IF cp = None THEN COMMISSION_PCT ELSE cp,
     slippage_pct |-> IF sp = None THEN SLIPPAGE_PCT ELSE sp,
     risk_per_trade |-> IF rpt = None THEN RISK_PER_TRADE ELSE rpt,
     stop_loss_pct |-> IF slp = None THEN STOP_LOSS_PCT ELSE slp]

\* A pd.Timestamp is an instant together with the UTC offset it is expressed
\* with.  The index of a validated series has one zone: its timestamps are
\* 1, 2, ...; -k is the instant of k expressed with another offset, so that
\* k and -k are equal as timestamps.
Instant(ts) == IF ts < 0 THEN -ts ELSE ts

UtcOffset(ts) == IF ts < 0 THEN 1 ELSE 0

\* Timestamp.isoformat(): the wall-clock time followed by the offset.
isoformat(ts) == <<Instant(ts) + UtcOffset(ts), UtcOffset(ts)>>

\* `signal_map.get(ts_str, Signal.HOLD)` after the map was filled from the
\* list in order: the last signal of that timestamp, HOLD without one.
RECURSIVE SignalAt(_, _)
SignalAt(sigs, ts) ==
    IF sigs = <<>> THEN "HOLD"
    ELSE LET last == sigs[Len(sigs)]
         IN  IF isoformat(last[1]) = isoformat(ts) THEN last[2]
             ELSE SignalAt(SubSeq(sigs, 1, Len(sigs) - 1), ts)

\* BacktestTrade, as the three exits build it.
BacktestTrade(entry_price, exit_price, quantity, entry_time, exit_time, pnl, commission, ret_pct) ==
    [symbol |-> "A", side |-> "BUY",
     entry_price |-> RRound(entry_price, 4), exit_price |-> RRound(exit_price, 4),
     quantity |-> RRound(quantity, 6), entry_time |-> entry_time,
     exit_time |-> exit_time, pnl |-> RRound(pnl, 2),
     commission |-> RRound(commission, 2), return_pct |-> RRound(ret_pct, 6)]

\* A run() that would keep `capital` where the previous call left it.
RunLocalsCarried(self) ==
    [capital |-> IF frame.pc = "returned" THEN frame.capital ELSE self.initial_capital,
     position_qty |-> Zero, entry_price |-> Zero,
     entry_time |-> 0, trades |-> <<>>, equity_curve |-> <<>>]

\* The locals run() starts with.
RunLocals(self) ==
    [capital |-> self.initial_capital, position_qty |-> Zero, entry_price |-> Zero,
     entry_time |-> 0, trades |-> <<>>, equity_curve |-> <<>>]

\* What each exit computes from the close: price, commission, PnL, return.
ExitPrice(self, close) == RMul(close, RSub(One, self.slippage_pct))

ExitCommission(self, f, close) ==
    RMul(RMul(ExitPrice(self, close), f.position_qty), self.commission_pct)

ExitPnl(self, f, close) ==
    RSub(RMul(RSub(ExitPrice(self, close), f.entry_price), f.position_qty),
         ExitCommission(self, f, close))

ExitTrade(self, f, close, ts) ==
    BacktestTrade(f.entry_price, ExitPrice(self, close), f.position_qty, f.entry_time, ts,
                  ExitPnl(self, f, close), ExitCommission(self, f, close),
                  IF f.entry_price # Zero
                  THEN RDiv(RSub(ExitPrice(self, close), f.entry_price), f.entry_price)
                  ELSE Zero)

\* An exit inside the loop (stop-loss or SELL signal): the trade is recorded,
\* the PnL added to capital, the position cleared.
ExitPosition(self, f, close, ts) ==
    [f EXCEPT !.trades = Append(@, ExitTrade(self, f, close, ts)),
              !.capital = RAdd(@, ExitPnl(self, f, close)),
              !.position_qty = Zero,
              !.entry_price = Zero]

\* A stop-loss check that records the exit but leaves the position open to
\* the signal handling of the same bar.
StopLossCheckKeepsPosition(self, f, close, ts) ==
    IF RGt(f.position_qty, Zero)
       /\ RLe(close, RMul(f.entry_price, RSub(One, self.stop_loss_pct)))
    THEN [f EXCEPT !.trades = Append(@, ExitTrade(self, f, close, ts)),
                   !.capital = RAdd(@, ExitPnl(self, f, close))]
    ELSE f

\* The stop-loss check of one bar.
StopLossCheck(self, f, close, ts) ==
    IF RGt(f.position_qty, Zero)
       /\ RLe(close, RMul(f.entry_price, RSub(One, self.stop_loss_pct)))
    THEN ExitPosition(self, f, close, ts)
    ELSE f

\* An entry sized by the risk budget alone, without the 95% cap.
EnterPositionUncapped(self, f, close, ts) ==
    LET buy_price == RMul(close, RAdd(One, self.slippage_pct))
        risk_amount == RMul(f.capital, self.risk_per_trade)
        stop_dist == RMul(buy_price, self.stop_loss_pct)
        qty == IF RGt(stop_dist, Zero) THEN RDiv(risk_amount, stop_dist) ELSE Zero
    IN  IF RGt(qty, Zero)
        THEN [f EXCEPT !.capital = RSub(@, RMul(RMul(buy_price, qty), self.commission_pct)),
                       !.position_qty = qty,
                       !.entry_price = buy_price,
                       !.entry_time = ts]
        ELSE f

\* The entry on a BUY signal while flat.
EnterPosition(self, f, close, ts) ==
    LET buy_price == RMul(close, RAdd(One, self.slippage_pct))
        risk_amount == RMul(f.capital, self.risk_per_trade)
        stop_dist == RMul(buy_price, self.stop_loss_pct)
        by_risk == IF RGt(stop_dist, Zero) THEN RDiv(risk_amount, stop_dist) ELSE Zero
        max_qty == IF RGt(buy_price, Zero)
                   THEN RDiv(RMul(f.capital, Rat(95, 100)), buy_price)
                   ELSE Zero
        qty == RMin(by_risk, max_qty)
    IN  IF RGt(qty, Zero)
        THEN [f EXCEPT !.capital = RSub(@, RMul(RMul(buy_price, qty), self.commission_pct)),
                       !.position_qty = qty,
                       !.entry_price = buy_price,
                       !.entry_time = ts]
        ELSE f

\* A signal handling that would enter on every BUY, LONG or not.
ProcessSignalPyramids(self, f, sig, close, ts) ==
    IF sig = "BUY" THEN EnterPosition(self, f, close, ts)
    ELSE IF sig = "SELL" /\ RGt(f.position_qty, Zero) THEN ExitPosition(self, f, close, ts)
    ELSE f

\* The signal handling of one bar.
ProcessSignal(self, f, sig, close, ts) ==
    IF sig = "BUY" /\ f.position_qty = Zero THEN EnterPosition(self, f, close, ts)
    ELSE IF sig = "SELL" /\ RGt(f.position_qty, Zero) THEN ExitPosition(self, f, close, ts)
    ELSE f

\* The equity mark of one bar.
MarkEquity(f, close, ts) ==
    LET mark == RAdd(f.capital,
                     IF RGt(f.position_qty, Zero) THEN RMul(f.position_qty, close) ELSE Zero)
    IN  [f EXCEPT !.equity_curve = Append(@, [date |-> ts, equity |-> RRound(mark, 2)])]

\* One iteration of the loop over the bars.
ProcessBar(self, f, sig, close, ts) ==
    MarkEquity(ProcessSignal(self, StopLossCheck(self, f, close, ts), sig, close, ts), close, ts)

\* A run that would return with the last position still open.
FinalLiquidationSkipped(self, f, bars) == f

\* A liquidation that would also mark the equity once more.
FinalLiquidationMarks(self, f, bars) ==
    IF RGt(f.position_qty, Zero)
    THEN [f EXCEPT !.trades = Append(@, ExitTrade(self, f, bars[Len(bars)], Len(bars))),
                   !.capital = RAdd(@, ExitPnl(self, f, bars[Len(bars)])),
                   !.equity_curve = Append(@, [date |-> Len(bars),
                        equity |-> RRound(RAdd(f.capital, ExitPnl(self, f, bars[Len(bars)])), 2)])]
    ELSE f

\* The liquidation after the loop: the trade is recorded and the PnL added.
FinalLiquidation(self, f, bars) ==
    IF RGt(f.position_qty, Zero)
    THEN [f EXCEPT !.trades = Append(@, ExitTrade(self, f, bars[Len(bars)], Len(bars))),
                   !.capital = RAdd(@, ExitPnl(self, f, bars[Len(bars)]))]
    ELSE f

\* A classification that would count only a PnL < 0 as a loss.
LossesStrict(trades) == SelectSeq(trades, LAMBDA t : RLt(t.pnl, Zero))

\* The trades of a ledger with t.pnl > 0, and those with t.pnl <= 0.
Wins(trades) == SelectSeq(trades, LAMBDA t : RGt(t.pnl, Zero))
Losses(trades) == SelectSeq(trades, LAMBDA t : RLe(t.pnl, Zero))

\* sum(t.pnl for t in trades) and sum(abs(t.pnl) for t in trades)
RECURSIVE SumPnl(_)
SumPnl(trades) ==
    IF trades = <<>> THEN Zero ELSE RAdd(Head(trades).pnl, SumPnl(Tail(trades)))

RECURSIVE SumAbsPnl(_)
SumAbsPnl(trades) ==
    IF trades = <<>> THEN Zero
    ELSE RAdd(IF RLt(Head(trades).pnl, Zero) THEN RNeg(Head(trades).pnl) ELSE Head(trades).pnl,
              SumAbsPnl(Tail(trades)))

\* The profit factor reported when no loss was made.
NoLossProfitFactor == Rat(999999, 100)

\* A profit factor that would divide by the signed sum of the losses.
ProfitFactorSignedLosses(trades) ==
    IF RLt(SumPnl(Losses(trades)), Zero)
    THEN RDiv(SumPnl(Wins(trades)), SumPnl(Losses(trades)))
    ELSE NoLossProfitFactor

\* total_win_pnl / total_loss_pnl if total_loss_pnl > 0 else 9999.99
ProfitFactor(trades) ==
    IF RGt(SumAbsPnl(Losses(trades)), Zero)
    THEN RDiv(SumPnl(Wins(trades)), SumAbsPnl(Losses(trades)))
    ELSE NoLossProfitFactor

\* The largest equity of the places from..to (from <= to), by halves.
RECURSIVE MaxEquity(_, _, _)
MaxEquity(curve, from, to) ==
    IF from = to THEN curve[from].equity
    ELSE LET mid == (from + to) \div 2
         IN  RMax(MaxEquity(curve, from, mid), MaxEquity(curve, mid + 1, to))

\* equities.cummax() at place i.
RunningMax(curve, i) == MaxEquity(curve, 1, i)

\* (equities - running_max) / running_max at place i (the curve's values
\* are positive in every run explored).
DrawdownAt(curve, i) ==
    RDiv(RSub(curve[i].equity, RunningMax(curve, i)), RunningMax(curve, i))

\* A max drawdown that would be reported as a magnitude.
RECURSIVE MaxDrawdownMagnitude(_, _)
MaxDrawdownMagnitude(curve, i) ==
    IF i = 1 THEN RNeg(DrawdownAt(curve, 1))
    ELSE RMax(MaxDrawdownMagnitude(curve, i - 1), RNeg(DrawdownAt(curve, i)))

\* The smallest drawdown of the places from..to (from <= to), by halves.
RECURSIVE MinDrawdownOver(_, _, _)
MinDrawdownOver(curve, from, to) ==
    IF from = to THEN DrawdownAt(curve, from)
    ELSE LET mid == (from + to) \div 2
         IN  RMin(MinDrawdownOver(curve, from, mid), MinDrawdownOver(curve, mid + 1, to))

\* drawdown.min() over the places 1..i.
MinDrawdown(curve, i) == MinDrawdownOver(curve, 1, i)

\* equities.pct_change().dropna()
DailyReturns(curve) ==
    [i \in 1..(Len(curve) - 1) |->
        RDiv(RSub(curve[i + 1].equity, curve[i].equity), curve[i].equity)]

\* daily_returns.std() > 0: the sample deviation (ddof = 1) is NaN for fewer
\* than two returns and 0 when they are all equal.
StdIsPositive(xs) == Len(xs) >= 2 /\ \E i \in 1..Len(xs) : xs[i] # xs[1]

\* The Sharpe ratio (mean / std) * sqrt(252), kept as the returns it is
\* computed from: the square root is irrational.  0.0 when the deviation
\* is not > 0.
Sharpe(curve) ==
    IF Len(curve) > 1 /\ StdIsPositive(DailyReturns(curve))
    THEN [of_returns |-> DailyReturns(curve)]
    ELSE Zero

\* The annualized return (1 + total_return) ** (1 / max(years, 0.01)) - 1,
\* kept as the pair <<base, exponent>>: the power is irrational.  0.0 for a
\* curve of fewer than 2 points.
AnnualizedReturn(total_return, curve) ==
    IF Len(curve) > 1
    THEN <<RAdd(One, total_return),
           RDiv(One, RMax(RDiv(Int2R(Len(curve)), Int2R(252)), Rat(1, 100)))>>
    ELSE Zero

\* BacktestEngine._compute_stats
compute_stats(self, final_capital, trades, equity_curve, bars) ==
    LET total_return == RDiv(RSub(final_capital, self.initial_capital), self.initial_capital)
        wins == Wins(trades)
        losses == Losses(trades)
    IN  [start_date |-> IF Len(bars) > 0 THEN 1 ELSE 0,
         end_date |-> Len(bars),
         initial_capital |-> self.initial_capital,
         final_equity |-> RRound(final_capital, 2),
         total_return_pct |-> total_return,
         annualized_return_pct |-> AnnualizedReturn(total_return, equity_curve),
         sharpe_ratio |-> Sharpe(equity_curve),
         max_drawdown_pct |-> IF Len(equity_curve) > 1
                              THEN MinDrawdown(equity_curve, Len(equity_curve))
                              ELSE Zero,
         total_trades |-> Len(trades),
         winning_trades |-> Len(wins),
         losing_trades |-> Len(losses),
         win_rate |-> IF trades # <<>> THEN Rat(Len(wins), Len(trades)) ELSE Zero,
         avg_win |-> IF wins # <<>> THEN RDiv(SumPnl(wins), Int2R(Len(wins))) ELSE Zero,
         avg_loss |-> IF losses # <<>> THEN RDiv(SumAbsPnl(losses), Int2R(Len(losses))) ELSE Zero,
         profit_factor |-> ProfitFactor(trades),
         trades |-> trades,
         equity_curve |-> equity_curve]

\* An engine constructed with params, given bars and sigs, not yet run.
EngineIs(params, bars, sigs) ==
    /\ engine = BacktestEngineNew(params[1], params[2], params[3], params[4], params[5])
    /\ df = bars
    /\ signals = sigs
    /\ frame = [pc |-> "idle"]
    /\ results = <<>>

InitEngine ==
    \E params \in EngineParams, n \in 1..MaxBars :
        \E bars \in [1..n -> Closes], sigs \in SeqsUpTo(SignalSet(n), MaxSignals) :
            EngineIs(params, bars, sigs)

\* run() is entered: the locals are initialised.
RunBegin ==
    /\ frame.pc \in {"idle", "returned"}
    /\ Len(results) < MaxRuns
    /\ frame' = [pc |-> "loop", i |-> 1] @@ RunLocals(engine)
    /\ UNCHANGED <<engine, df, signals, results>>

\* One iteration of `for ts, row in df.iterrows()`.
RunBar ==
    /\ frame.pc = "loop"
    /\ frame.i <= Len(df)
    /\ frame' = [ProcessBar(engine, frame, SignalAt(signals, frame.i), df[frame.i], frame.i)
                    EXCEPT !.i = @ + 1]
    /\ UNCHANGED <<engine, df, signals, results>>

\* The loop is over: the open position is liquidated and the statistics
\* are returned.
RunEnd ==
    /\ frame.pc = "loop"
    /\ frame.i > Len(df)
    /\ LET f == FinalLiquidation(engine, frame, df)
       IN  /\ frame' = [f EXCEPT !.pc = "returned"]
           /\ results' = Append(results, compute_stats(engine, f.capital, f.trades, f.equity_curve, df))
    /\ UNCHANGED <<engine, df, signals>>

-----------------------------------------------------------------------------
(* MovingAverageCrossover: the signal producer of the crossover scenario.  *)
(* A validated series is the sequence of its closes, as for the engine.    *)

\* config.Settings defaults of the two windows.
SHORT_WINDOW == 10
LONG_WINDOW == 50

\* MovingAverageCrossover.__init__: `short_window or default`.  The windows
\* are integers; an omitted one (None) is passed as 0, which `or` treats
\* alike.
MovingAverageCrossoverNew(short_window, long_window) ==
    [short_window |-> IF short_window = 0 THEN SHORT_WINDOW ELSE short_window,
     long_window |-> IF long_window = 0 THEN LONG_WINDOW ELSE long_window]

\* The sum of the closes of the bars from..to (from <= to), by halves.
RECURSIVE SumCloses(_, _, _)
SumCloses(bars, from, to) ==
    IF from = to THEN bars[from]
    ELSE LET mid == (from + to) \div 2
         IN  RAdd(SumCloses(bars, from, mid), SumCloses(bars, mid + 1, to))

\* df["close"].rolling(window, min_periods=window).mean() at bar i: NaN
\* (None) until the window is full.
RollingMean(bars, i, window) ==
    IF i < window THEN None
    ELSE RDiv(SumCloses(bars, i - window + 1, i), Int2R(window))

\* The first row dropna(subset=["sma_short", "sma_long"]) keeps.
FirstRow(self) ==
    IF self.short_window > self.long_window THEN self.short_window ELSE self.long_window

\* np.where(sma_short > sma_long, 1.0, -1.0) at row i.
CrossPosition(self, bars, i) ==
    IF RGt(RollingMean(bars, i, self.short_window), RollingMean(bars, i, self.long_window))
    THEN 1 ELSE -1

\* A difference taken against a flat 0 on the first row kept.
CrossoverFromFlat(self, bars, i) ==
    IF i = FirstRow(self) THEN <<CrossPosition(self, bars, i)>>
    ELSE <<CrossPosition(self, bars, i) - CrossPosition(self, bars, i - 1)>>

\* df["position"].diff() at row i as <<difference>>, None for the NaN of
\* the first row kept.
Crossover(self, bars, i) ==
    IF i = FirstRow(self) THEN None
    ELSE <<CrossPosition(self, bars, i) - CrossPosition(self, bars, i - 1)>>

\* What the loop appends for row i: BUY for cross > 0, SELL for cross < 0,
\* nothing for 0 and for NaN (both comparisons are false).
RowSignal(self, bars, i) ==
    LET cross == Crossover(self, bars, i)
    IN  IF cross = None THEN "NONE"
        ELSE IF cross[1] > 0 THEN "BUY"
        ELSE IF cross[1] < 0 THEN "SELL"
        ELSE "NONE"

\* The loop over the rows kept: the signals appended, in row order.
CrossoverSignals(self, bars) ==
    LET first == FirstRow(self)
        rows == [j \in 1..(Len(bars) - first + 1) |->
                    <<j + first - 1, RowSignal(self, bars, j + first - 1)>>]
    IN  SelectSeq(rows, LAMBDA s : s[2] # "NONE")

\* MovingAverageCrossover.generate_signals
generate_signals(self, bars) ==
    IF Len(bars) < self.long_window THEN <<>>
    ELSE CrossoverSignals(self, bars)

\* The longest series a strategy is run on bar by bar.
MaxStrategyBars == 5

\* The windows a MovingAverageCrossover is constructed with, as
\* <<short_window, long_window>>; 0 stands for an argument left out.
StrategyWindows == {<<0, 0>>, <<1, 2>>, <<2, 3>>, <<3, 2>>}

\* BacktestEngine(MovingAverageCrossover(short, long), ...) and a series to
\* run it on; run() has not been called.
InitStrategy ==
    \E w \in StrategyWindows, n \in 1..MaxStrategyBars :
        \E bars \in [1..n -> Closes] :
            /\ engine = BacktestEngineNew(Int2R(100), Zero, Zero, Rat(4, 100), Rat(4, 100))
                           @@ [strategy |-> MovingAverageCrossoverNew(w[1], w[2])]
            /\ df = bars
            /\ signals = <<>>
            /\ frame = [pc |-> "idle"]
            /\ results = <<>>

\* run() is entered: lines 93-106, with the strategy's signals for df.
RunBeginStrategy ==
    /\ frame.pc \in {"idle", "returned"}
    /\ Len(results) < MaxRuns
    /\ signals' = generate_signals(engine.strategy, df)
    /\ frame' = [pc |-> "loop", i |-> 1] @@ RunLocals(engine)
    /\ UNCHANGED <<engine, df, results>>

\* The bars of the crossover scenario.
ScenarioBars == 60

\* Element j (from 1) of n evenly spaced closes from a to b.
Linspace(a, b, n, j) ==
    RAdd(Int2R(a), RDiv(RMul(Int2R(b - a), Int2R(j - 1)), Int2R(n - 1)))

\* Closes rising linearly from 100 to 130 over the first `rising` bars and
\* falling linearly to 90 at the last bar; the fall starts either at 130
\* again (the peak repeated) or one step below it.
ScenarioSeries(rising, repeated) ==
    [i \in 1..ScenarioBars |->
        IF i <= rising THEN Linspace(100, 130, rising, i)
        ELSE IF repeated THEN Linspace(130, 90, ScenarioBars - rising, i - rising)
        ELSE Linspace(130, 90, ScenarioBars - rising + 1, i - rising + 1)]

\* Where the scenario's series may peak.
ScenarioPeaks == {20, 30, 31, 40}

\* BacktestEngine(MovingAverageCrossover(5, 20), initial_capital=100000,
\* commission_pct=0.001, slippage_pct=0.0005, stop_loss_pct=0.03) given a
\* scenario series and the strategy's signals for it.
InitScenario ==
    \E rising \in ScenarioPeaks, repeated \in BOOLEAN :
        LET bars == ScenarioSeries(rising, repeated)
        IN  EngineIs(<<Int2R(100000), Rat(1, 1000), Rat(5, 10000), None, Rat(3, 100)>>,
                     bars, generate_signals(MovingAverageCrossoverNew(5, 20), bars))

-----------------------------------------------------------------------------
(* TradingService: strategy signals routed to the risk sizer and the       *)
(* broker.  The service runs without a database session (db = None), so    *)
(* the _persist_* calls return at once.                                    *)

\* Constructor arguments of the broker and of the risk manager a service is
\* built on.
ServiceParams ==
    { <<<<Int2R(100), Zero, Zero>>,
        <<Int2R(100), Rat(2, 100), Rat(3, 100), Rat(10, 100), 3, Rat(80, 100)>>>>,
      <<<<Int2R(100), Rat(1, 100), Rat(1, 10)>>,
        <<Int2R(100), Rat(2, 100), Rat(3, 100), Rat(10, 100), 1, Rat(80, 100)>>>>,
      <<<<Int2R(5), Zero, Zero>>,
        <<Int2R(100), Rat(2, 100), Rat(3, 100), Rat(10, 100), 3, Rat(80, 100)>>>> }

\* The price of the signals a strategy emits for a symbol: each instrument
\* trades at its own level.
SignalPrice(sym) == IF sym = "A" THEN Int2R(10) ELSE Int2R(100000)

\* <<symbol, price>>: the prices positions are marked to between two bars.
ServiceMarks == {<<"A", Rat(7196, 100)>>}

\* The signals a strategy emits.
ServiceSignals ==
    {[signal |-> k, symbol |-> sym, price |-> SignalPrice(sym)] :
        k \in {"BUY", "SELL"}, sym \in Symbols}
    \cup {[signal |-> "HOLD", symbol |-> "A", price |-> SignalPrice("A")]}

\* The longest signal list generate_signals returns for one bar.
MaxBarSignals == 2

\* process_bar is called at most this often.
MaxProcessBars == 2

\* The largest denominator of an exposure the exact arithmetic is run on.
MaxDenominator == 1000

VARIABLES
    peak_equity,  \* TradingService.peak_equity
    bar           \* the local variables of process_bar and its place in the loop

serviceVars == <<peak_equity, bar>>

\* PositionInfo, as get_positions builds it from an open position.
PositionInfo(pos) ==
    [symbol |-> pos.symbol, side |-> pos.side,
     quantity |-> RRound(pos.quantity, 6),
     entry_price |-> RRound(pos.entry_price, 4),
     current_price |-> RRound(pos.current_price, 4),
     unrealized_pnl |-> RRound(RMul(RSub(pos.current_price, pos.entry_price), pos.quantity), 2),
     stop_loss |-> pos.stop_loss]

\* PaperBroker.get_positions
get_positions(self) == {PositionInfo(pos) : pos \in self.positions}

\* The broker, the risk manager and the service as one value, with the last
\* returns of the first two.
World ==
    [broker |-> Self, result |-> result, risk |-> RiskSelf, risk_call |-> risk_call,
     peak_equity |-> peak_equity, bar |-> bar]

\* The detail record of a BUY the risk manager rejected.
RiskDetail(sig, assessment) ==
    [signal |-> sig.signal, symbol |-> sig.symbol, status |-> "REJECTED",
     reason |-> assessment.reason]

\* The detail record of an order the broker answered.
OrderDetail(sig, order) ==
    [signal |-> sig.signal, symbol |-> sig.symbol, status |-> order.status,
     quantity |-> order.quantity, price |-> order.price, message |-> order.message]

\* A service that would not tell the risk manager about a fill.
SyncCapitalSkipped(risk, broker) == risk

\* `self.risk_manager.update_capital(self.broker.get_balance())`
SyncCapital(risk, broker) == update_capital(risk, get_balance(broker))

\* `if current_value > self.peak_equity: self.peak_equity = current_value`
PeakAfter(peak, broker) ==
    IF RGt(get_portfolio_value(broker), peak) THEN get_portfolio_value(broker) ELSE peak

\* process_bar after the broker has answered (o) the order of sig: the
\* counters, the capital update after a fill, the detail record and the
\* peak.  An order that raised ends process_bar there.
AfterOrder(w, o, sig) ==
    IF o.ret.status = "RAISED" THEN
        [w EXCEPT !.broker = o.self, !.result = o.ret, !.bar.pc = "raised"]
    ELSE
        LET filled == o.ret.status = "FILLED"
        IN  [w EXCEPT
               !.broker = o.self,
               !.result = o.ret,
               !.risk = IF filled THEN SyncCapital(@, o.self) ELSE @,
               !.risk_call = IF filled
                             THEN [call |-> "update_capital", new_capital |-> get_balance(o.self)]
                             ELSE @,
               !.peak_equity = PeakAfter(@, o.self),
               !.bar.order = o.ret,
               !.bar.executed = IF filled THEN @ + 1 ELSE @,
               !.bar.rejected = IF filled THEN @ ELSE @ + 1,
               !.bar.details = Append(@, OrderDetail(sig, o.ret))]

\* The BUY branch of process_bar.
BuySignal(w, sig) ==
    LET infos == get_positions(w.broker)
        current_exposure == PositionValue(infos)
        open_count == Cardinality(infos)
        assessment == assess_trade(w.risk, sig.price, "BUY", current_exposure, open_count)
        assessed == [w EXCEPT
                       !.risk_call = [call |-> "assess_trade", price |-> sig.price,
                                      side |-> "BUY", current_exposure |-> current_exposure,
                                      open_position_count |-> open_count,
                                      ret |-> assessment],
                       !.bar.assessment = assessment]
    IN  IF ~assessment.approved
        THEN [assessed EXCEPT !.bar.rejected = @ + 1,
                              !.bar.details = Append(@, RiskDetail(sig, assessment))]
        ELSE AfterOrder(assessed,
                        place_order(w.broker, sig.symbol, "BUY", assessment.position_size,
                                    sig.price, assessment.stop_loss_price),
                        sig)

\* The SELL branch of process_bar.
SellSignal(w, sig) ==
    AfterOrder(w, close_position(w.broker, sig.symbol, sig.price), sig)

\* One iteration of `for sig in signals`.
process_signal(w, sig) ==
    LET next == [w EXCEPT !.bar.sig = sig, !.bar.n = @ + 1,
                          !.bar.seen = IF sig.signal = "HOLD" THEN @ ELSE @ + 1]
    IN  IF sig.signal = "HOLD" THEN next
        ELSE IF sig.signal = "BUY" THEN BuySignal(next, sig)
        ELSE SellSignal(next, sig)

\* TradingService.get_performance (without the strategy's name).
get_performance(w) ==
    LET portfolio_value == get_portfolio_value(w.broker)
        infos == get_positions(w.broker)
        total_return == IF RGt(w.risk.capital, Zero)
                        THEN RDiv(RSub(portfolio_value, w.risk.capital), w.risk.capital)
                        ELSE Zero
        dd == check_drawdown(w.risk, w.peak_equity)
    IN  [portfolio_value |-> RRound(portfolio_value, 2),
         cash |-> RRound(get_balance(w.broker), 2),
         position_value |-> RRound(PositionValue(infos), 2),
         total_return_pct |-> RRound(total_return, 6),
         drawdown_pct |-> dd.drawdown_pct,
         peak_equity |-> dd.peak_equity,
         open_positions |-> Cardinality(infos)]

\* The world variables take the fields of w.
SetWorld(w) ==
    /\ SetBroker(w.broker)
    /\ result' = w.result
    /\ SetRisk(w.risk)
    /\ risk_call' = w.risk_call
    /\ peak_equity' = w.peak_equity
    /\ bar' = w.bar

\* A service that has not been constructed.
ServiceIdle == peak_equity = None /\ bar = [pc |-> "none", calls |-> 0]

\* TradingService.__init__ on a broker and a risk manager just constructed.
InitService ==
    \E params \in ServiceParams :
        /\ BrokerIs(params[1])
        /\ RiskIs(params[2])
        /\ peak_equity = get_portfolio_value(Self)
        /\ bar = [pc |-> "idle", calls |-> 0]

\* process_bar is entered with the signals of the strategy.
ProcessBarBegin ==
    /\ bar.pc \in {"idle", "returned", "raised"}
    /\ bar.calls < MaxProcessBars
    /\ bar' = [pc |-> "loop", calls |-> bar.calls + 1, n |-> 0, seen |-> 0,
               executed |-> 0, rejected |-> 0, details |-> <<>>,
               sig |-> None, assessment |-> None, order |-> None]
    /\ UNCHANGED <<brokerVars, riskVars, peak_equity>>

\* The guard that keeps the explored accounts within the exact arithmetic:
\* the exposure is a fraction of a small denominator.
Representable == PositionValue(get_positions(Self))[2] <= MaxDenominator

\* The next signal of the list is processed.
ProcessBarSignal ==
    /\ bar.pc = "loop"
    /\ bar.n < MaxBarSignals
    /\ Representable
    /\ \E sig \in ServiceSignals : SetWorld(process_signal(World, sig))

\* A service whose risk manager may put the whole capital into one position:
\* max_position_pct = 1 and max_total_exposure = 1, on a broker without costs.
AllInParams ==
    { <<<<Int2R(100), Zero, Zero>>,
        <<Int2R(100), Rat(3, 100), Rat(3, 100), Int2R(1), 3, Int2R(1)>>>> }

\* The signals of a strategy for instruments trading at 6 and at 10.
AllInSignals ==
    {[signal |-> k, symbol |-> sym, price |-> price] :
        k \in {"BUY", "SELL"}, sym \in Symbols, price \in {Int2R(6), Int2R(10)}}

\* TradingService.__init__ on an all-in risk manager.
InitAllInService ==
    \E params \in AllInParams :
        /\ BrokerIs(params[1])
        /\ RiskIs(params[2])
        /\ peak_equity = get_portfolio_value(Self)
        /\ bar = [pc |-> "idle", calls |-> 0]

\* The next signal of the all-in strategy's list is processed.
ProcessBarAllIn ==
    /\ bar.pc = "loop"
    /\ bar.n < MaxBarSignals
    /\ Representable
    /\ \E sig \in AllInSignals : SetWorld(process_signal(World, sig))

\* The list is exhausted: process_bar returns its TradingResult.
ProcessBarReturn ==
    /\ bar.pc = "loop"
    /\ bar' = [bar EXCEPT !.pc = "returned"]
    /\ UNCHANGED <<brokerVars, riskVars, peak_equity>>

\* Between two bars a position is marked to a new price.
ServiceUpdatePrice ==
    /\ bar.pc \in {"idle", "returned", "raised"}
    /\ \E mark \in ServiceMarks :
          SetBroker(update_price(Self, mark[1], mark[2])) /\ result' = Void("update_price")
    /\ UNCHANGED <<riskVars, serviceVars>>

-----------------------------------------------------------------------------
(* Concurrent callers of PaperBroker.place_order.  execute_trade is a plain  *)
(* `def` endpoint working on the module's one broker: the server runs each   *)
(* request in a worker thread and nothing in the code takes a lock.  A       *)
(* thread's call is followed statement by statement; the read and the write *)
(* of an augmented assignment are two steps.  The threads send BUY orders.   *)

\* The request threads.
Threads == {1, 2}

\* place_order calls one thread makes.
MaxThreadCalls == 1

\* Reference prices of the orders the threads send.
ThreadPrices == {Int2R(12)}

\* Reference prices of the orders sent before the threads start.
SerialPrices == {Int2R(10)}

VARIABLES
    threads,     \* per thread: the locals of its place_order call and its place in it
    serialized   \* whether the callers hold one lock per account around place_order

threadVars == <<threads, serialized>>

\* The threads inside place_order.
InFlight == {t \in Threads : threads[t].pc \notin {"idle", "returned"}}

\* No thread has called yet.
ThreadsIdle ==
    /\ threads = [t \in Threads |-> [pc |-> "idle", calls |-> 0]]
    /\ serialized = TRUE

InitThreads ==
    /\ threads = [t \in Threads |-> [pc |-> "idle", calls |-> 0]]
    /\ serialized \in BOOLEAN

\* The object `pos` refers to: the dict's entry while it is still that
\* object, the thread's own reference once another thread has stored a new
\* object under the key.
PosObject(L) == IF L.in_dict THEN PositionOf(positions, L.symbol) ELSE L.obj

\* An attribute assignment through `pos`, by thread t.
PosAssign(t, obj, pc) ==
    IF threads[t].in_dict
    THEN /\ positions' = StorePosition(positions, obj)
         /\ threads' = [threads EXCEPT ![t].pc = pc]
    ELSE /\ positions' = positions
         /\ threads' = [threads EXCEPT ![t].pc = pc, ![t].obj = obj]

\* The quantity the merge stores, with the quantity already held left out.
MergedQuantityReplaced(pos, quantity) == quantity

\* new_qty = pos.quantity + quantity
MergedQuantity(pos, quantity) == RAdd(pos.quantity, quantity)

\* Lines 51-63: the call is entered and the costs are computed.  `before` is
\* the account as the call found it (kept for the properties only).
ThreadCall(t) ==
    /\ threads[t].pc \in {"idle", "returned"}
    /\ threads[t].calls < MaxThreadCalls
    /\ serialized => InFlight = {}
    /\ Len(trade_log) + Cardinality(InFlight) < MaxLog
    /\ \E symbol \in Symbols, quantity \in ValidQuantities, price \in ThreadPrices,
          stop_loss \in StopLosses :
          LET fill_price == FillPrice(Self, "BUY", price)
              cost == RMul(fill_price, quantity)
              commission == RMul(cost, commission_pct)
          IN  threads' = [threads EXCEPT ![t] =
                  [pc |-> "check", calls |-> threads[t].calls + 1,
                   symbol |-> symbol, quantity |-> quantity, price |-> price,
                   stop_loss |-> stop_loss, fill_price |-> fill_price,
                   commission |-> commission, total_cost |-> RAdd(cost, commission),
                   cash_read |-> None, new_qty |-> None, in_dict |-> FALSE,
                   obj |-> None, branch |-> "none", ret |-> None, before |-> Self]]
    /\ UNCHANGED <<brokerVars, serialized>>

\* Line 64: the funds check; lines 65-74 return the rejection.
ThreadCheck(t) ==
    /\ threads[t].pc = "check"
    /\ LET L == threads[t]
           r == Reject(Self, L.symbol, "BUY", L.fill_price, "Insufficient funds")
       IN  IF InsufficientFunds(Self, L.total_cost)
           THEN /\ threads' = [threads EXCEPT ![t].pc = "returned", ![t].ret = r.ret]
                /\ result' = r.ret
           ELSE /\ threads' = [threads EXCEPT ![t].pc = "debit_read"]
                /\ result' = result
    /\ UNCHANGED <<cash, initial_capital, commission_pct, slippage_pct, positions,
                   trade_log, serialized>>

\* Line 75, `self.cash -= total_cost`: the cash is read ...
ThreadDebitRead(t) ==
    /\ threads[t].pc = "debit_read"
    /\ threads' = [threads EXCEPT ![t].pc = "debit_write", ![t].cash_read = cash]
    /\ UNCHANGED <<brokerVars, serialized>>

\* ... and the difference is stored.
ThreadDebitWrite(t) ==
    /\ threads[t].pc = "debit_write"
    /\ cash' = RSub(threads[t].cash_read, threads[t].total_cost)
    /\ threads' = [threads EXCEPT ![t].pc = "lookup"]
    /\ UNCHANGED <<initial_capital, commission_pct, slippage_pct, positions,
                   trade_log, result, serialized>>

\* Line 76: `symbol in self._positions`.
ThreadLookup(t) ==
    /\ threads[t].pc = "lookup"
    /\ threads' = [threads EXCEPT
                     ![t].pc = IF HasPosition(positions, threads[t].symbol)
                               THEN "merge_read" ELSE "create",
                     ![t].branch = IF HasPosition(positions, threads[t].symbol)
                                   THEN "merge" ELSE "create"]
    /\ UNCHANGED <<brokerVars, serialized>>

\* Lines 77-78: pos = self._positions[symbol]; new_qty = pos.quantity + quantity.
\* No thread deletes a key, so the key found at line 76 is still there.
ThreadMergeRead(t) ==
    /\ threads[t].pc = "merge_read"
    /\ threads' = [threads EXCEPT
                     ![t].pc = "merge_entry",
                     ![t].in_dict = TRUE,
                     ![t].new_qty = MergedQuantity(PositionOf(positions, threads[t].symbol),
                                                   threads[t].quantity)]
    /\ UNCHANGED <<brokerVars, serialized>>

\* Lines 79-81: pos.entry_price = (...) / new_qty.
ThreadMergeEntry(t) ==
    /\ threads[t].pc = "merge_entry"
    /\ LET L == threads[t]
           pos == PosObject(L)
       IN  PosAssign(t, [pos EXCEPT !.entry_price =
                            MergeEntryPrice(pos, L.fill_price, L.quantity, L.new_qty)],
                     "merge_quantity")
    /\ UNCHANGED <<cash, initial_capital, commission_pct, slippage_pct, trade_log,
                   result, serialized>>

\* Line 82: pos.quantity = new_qty.
ThreadMergeQuantity(t) ==
    /\ threads[t].pc = "merge_quantity"
    /\ PosAssign(t, [PosObject(threads[t]) EXCEPT !.quantity = threads[t].new_qty],
                 "merge_stop")
    /\ UNCHANGED <<cash, initial_capital, commission_pct, slippage_pct, trade_log,
                   result, serialized>>

\* Line 83: pos.stop_loss = stop_loss.
ThreadMergeStop(t) ==
    /\ threads[t].pc = "merge_stop"
    /\ PosAssign(t, [PosObject(threads[t]) EXCEPT !.stop_loss = threads[t].stop_loss],
                 "append")
    /\ UNCHANGED <<cash, initial_capital, commission_pct, slippage_pct, trade_log,
                   result, serialized>>

\* Lines 85-92: self._positions[symbol] = _OpenPosition(...).  A thread that
\* holds the object stored under the key until now keeps its reference.
ThreadCreate(t) ==
    /\ threads[t].pc = "create"
    /\ LET L == threads[t]
       IN  /\ positions' = StorePosition(positions,
                   OpenPosition(L.symbol, "BUY", L.quantity, L.fill_price, L.fill_price,
                                L.stop_loss))
           /\ threads' = [u \in Threads |->
                   IF u = t THEN [L EXCEPT !.pc = "append"]
                   ELSE IF /\ threads[u].pc \in {"merge_entry", "merge_quantity", "merge_stop"}
                           /\ threads[u].symbol = L.symbol
                           /\ threads[u].in_dict
                        THEN [threads[u] EXCEPT !.in_dict = FALSE,
                                                !.obj = PositionOf(positions, L.symbol)]
                        ELSE threads[u]]
    /\ UNCHANGED <<cash, initial_capital, commission_pct, slippage_pct, trade_log,
                   result, serialized>>

\* Lines 113-124: the FILLED result is appended to the ledger and returned.
ThreadReturn(t) ==
    /\ threads[t].pc = "append"
    /\ LET L == threads[t]
           ret == OrderResult(L.symbol, "BUY", L.quantity, RRound(L.fill_price, 4),
                              "FILLED", RRound(L.commission, 4), "Order filled")
       IN  /\ trade_log' = Append(trade_log, ret)
           /\ result' = ret
           /\ threads' = [threads EXCEPT ![t].pc = "returned", ![t].ret = ret]
    /\ UNCHANGED <<cash, initial_capital, commission_pct, slippage_pct, positions,
                   serialized>>

\* A call made before the threads start runs from entry to return on its
\* own.
SerialPlaceOrder ==
    /\ InFlight = {}
    /\ \A t \in Threads : threads[t].pc = "idle"
    /\ PlaceOrder(ValidQuantities, SerialPrices, StopLosses)
    /\ UNCHANGED threadVars

-----------------------------------------------------------------------------
(* Specifications.                                                         *)

vars == <<brokerVars, riskVars, engineVars, serviceVars, threadVars>>

\* The component is constructed and not used.
BrokerIdle == BrokerIs(<<None, None, None>>)

RiskIdle == RiskIs(<<None, None, None, None, 10, Rat(80, 100)>>)

EngineIdle == EngineIs(<<None, None, None, None, None>>, <<>>, <<>>)

Init == InitBroker /\ RiskIdle /\ EngineIdle /\ ServiceIdle /\ ThreadsIdle

Next ==
    \/ PlaceOrder(ValidQuantities, Prices, StopLosses) /\ UNCHANGED <<riskVars, engineVars, serviceVars, threadVars>>
    \/ ClosePosition(Prices) /\ UNCHANGED <<riskVars, engineVars, serviceVars, threadVars>>
    \/ UpdatePrice /\ UNCHANGED <<riskVars, engineVars, serviceVars, threadVars>>
    \/ Reset /\ UNCHANGED <<riskVars, engineVars, serviceVars, threadVars>>

\* The paper account driven with positive order quantities.
Spec == Init /\ [][Next]_vars

NextAnyQty ==
    \/ PlaceOrder(AnyQuantities, AnyQtyPrices, {None}) /\ UNCHANGED <<riskVars, engineVars, serviceVars, threadVars>>
    \/ ClosePosition(AnyQtyPrices) /\ UNCHANGED <<riskVars, engineVars, serviceVars, threadVars>>
    \/ UpdatePrice /\ UNCHANGED <<riskVars, engineVars, serviceVars, threadVars>>
    \/ Reset /\ UNCHANGED <<riskVars, engineVars, serviceVars, threadVars>>

\* The paper account driven with whatever quantities place_order accepts.
SpecAnyQty == Init /\ [][NextAnyQty]_vars

InitRiskOnly == InitRisk /\ BrokerIdle /\ EngineIdle /\ ServiceIdle /\ ThreadsIdle

NextRisk ==
    \/ UpdateCapital /\ UNCHANGED <<brokerVars, engineVars, serviceVars, threadVars>>
    \/ AssessTrade /\ UNCHANGED <<brokerVars, engineVars, serviceVars, threadVars>>
    \/ CheckDrawdown /\ UNCHANGED <<brokerVars, engineVars, serviceVars, threadVars>>

\* The risk sizer called with arbitrary arguments.
SpecRisk == InitRiskOnly /\ [][NextRisk]_vars

InitReplay == InitEngine /\ BrokerIdle /\ RiskIdle /\ ServiceIdle /\ ThreadsIdle

NextReplay ==
    \/ RunBegin /\ UNCHANGED <<brokerVars, riskVars, serviceVars, threadVars>>
    \/ RunBar /\ UNCHANGED <<brokerVars, riskVars, serviceVars, threadVars>>
    \/ RunEnd /\ UNCHANGED <<brokerVars, riskVars, serviceVars, threadVars>>

\* The backtest engine replaying bar series, run after run.
SpecReplay == InitReplay /\ [][NextReplay]_vars

InitTrading == InitService /\ EngineIdle /\ ThreadsIdle

NextTrading ==
    \/ ProcessBarBegin /\ UNCHANGED <<engineVars, threadVars>>
    \/ ProcessBarSignal /\ UNCHANGED <<engineVars, threadVars>>
    \/ ProcessBarReturn /\ UNCHANGED <<engineVars, threadVars>>
    \/ ServiceUpdatePrice /\ UNCHANGED <<engineVars, threadVars>>

\* The trading service processing bars on a paper broker whose positions are
\* marked to new prices between the bars.
SpecTrading == InitTrading /\ [][NextTrading]_vars

\* The service with an all-in risk manager.
InitAllIn == InitAllInService /\ EngineIdle /\ ThreadsIdle

NextAllIn ==
    \/ ProcessBarBegin /\ UNCHANGED <<engineVars, threadVars>>
    \/ ProcessBarAllIn /\ UNCHANGED <<engineVars, threadVars>>
    \/ ProcessBarReturn /\ UNCHANGED <<engineVars, threadVars>>

SpecAllIn == InitAllIn /\ [][NextAllIn]_vars

InitConcurrent == InitBroker /\ RiskIdle /\ EngineIdle /\ ServiceIdle /\ InitThreads

NextConcurrent ==
    \/ SerialPlaceOrder /\ UNCHANGED <<riskVars, engineVars, serviceVars>>
    \/ \E t \in Threads : ThreadCall(t) /\ UNCHANGED <<riskVars, engineVars, serviceVars>>
    \/ \E t \in Threads : ThreadCheck(t) /\ UNCHANGED <<riskVars, engineVars, serviceVars>>
    \/ \E t \in Threads : ThreadDebitRead(t) /\ UNCHANGED <<riskVars, engineVars, serviceVars>>
    \/ \E t \in Threads : ThreadDebitWrite(t) /\ UNCHANGED <<riskVars, engineVars, serviceVars>>
    \/ \E t \in Threads : ThreadLookup(t) /\ UNCHANGED <<riskVars, engineVars, serviceVars>>
    \/ \E t \in Threads : ThreadMergeRead(t) /\ UNCHANGED <<riskVars, engineVars, serviceVars>>
    \/ \E t \in Threads : ThreadMergeEntry(t) /\ UNCHANGED <<riskVars, engineVars, serviceVars>>
    \/ \E t \in Threads : ThreadMergeQuantity(t) /\ UNCHANGED <<riskVars, engineVars, serviceVars>>
    \/ \E t \in Threads : ThreadMergeStop(t) /\ UNCHANGED <<riskVars, engineVars, serviceVars>>
    \/ \E t \in Threads : ThreadCreate(t) /\ UNCHANGED <<riskVars, engineVars, serviceVars>>
    \/ \E t \in Threads : ThreadReturn(t) /\ UNCHANGED <<riskVars, engineVars, serviceVars>>

\* Request threads calling place_order on one account, with and without a
\* lock around the call.
SpecConcurrent == InitConcurrent /\ [][NextConcurrent]_vars

InitCrossover == InitScenario /\ BrokerIdle /\ RiskIdle /\ ServiceIdle /\ ThreadsIdle

\* The backtest engine replaying the crossover scenario.
SpecCrossover == InitCrossover /\ [][NextReplay]_vars

\* The replay of the signals a crossover strategy computes for the series.
InitSignals == InitStrategy /\ BrokerIdle /\ RiskIdle /\ ServiceIdle /\ ThreadsIdle

NextSignals ==
    \/ RunBeginStrategy /\ UNCHANGED <<brokerVars, riskVars, serviceVars, threadVars>>
    \/ RunBar /\ UNCHANGED <<brokerVars, riskVars, serviceVars, threadVars>>
    \/ RunEnd /\ UNCHANGED <<brokerVars, riskVars, serviceVars, threadVars>>

SpecSignals == InitSignals /\ [][NextSignals]_vars

NextOversell ==
    \/ PlaceOrder(OversellQuantities, Prices, StopLosses) /\ UNCHANGED <<riskVars, engineVars, serviceVars, threadVars>>
    \/ ClosePosition(Prices) /\ UNCHANGED <<riskVars, engineVars, serviceVars, threadVars>>
    \/ UpdatePrice /\ UNCHANGED <<riskVars, engineVars, serviceVars, threadVars>>
    \/ Reset /\ UNCHANGED <<riskVars, engineVars, serviceVars, threadVars>>

\* The paper account driven with positive quantities that may exceed the
\* open quantity by far.
SpecOversell == Init /\ [][NextOversell]_vars

\* The replay with an engine whose costs can exhaust the capital.
InitRuin ==
    /\ \E params \in RuinParams, n \in 1..MaxBars :
          \E bars \in [1..n -> Closes], sigs \in SeqsUpTo(SignalSet(n), MaxSignals) :
              EngineIs(params, bars, sigs)
    /\ BrokerIdle /\ RiskIdle /\ ServiceIdle /\ ThreadsIdle

SpecRuin == InitRuin /\ [][NextReplay]_vars

\* The replay of signals whose timestamps need not carry the offset of the
\* bar index.
InitZoned ==
    /\ \E params \in EngineParams, n \in 1..MaxBars :
          \E bars \in [1..n -> Closes], sigs \in SeqsUpTo(ZonedSignalSet(n), MaxSignals) :
              EngineIs(params, bars, sigs)
    /\ BrokerIdle /\ RiskIdle /\ ServiceIdle /\ ThreadsIdle

SpecZoned == InitZoned /\ [][NextReplay]_vars

-----------------------------------------------------------------------------
(* The paper account's properties.                                         *)

\* The step is a call place_order(symbol, side, quantity, price, stop_loss):
\* what the call returned is compared first, the whole effect after it.
PlacedOrder(symbol, side, quantity, price, stop_loss) ==
    /\ result'.status \in {"FILLED", "REJECTED"}
    /\ result'.symbol = symbol
    /\ result'.side = Upper(side)
    /\ result'.status = "FILLED" => result'.quantity = quantity
    /\ PlaceOrderCall(symbol, side, quantity, price, stop_loss)

\* The step is a call close_position(symbol, price).
ClosedPosition(symbol, price) ==
    /\ result'.status \in {"FILLED", "REJECTED"}
    /\ result'.symbol = symbol
    /\ result'.side = "SELL"
    /\ ClosePositionCall(symbol, price)

\* fill_price * quantity + commission of a BUY, as the contract states it.
BuyTotal(quantity, price) ==
    LET fill_price == RMul(price, RAdd(One, slippage_pct))
    IN  RAdd(RMul(fill_price, quantity), RMul(RMul(fill_price, quantity), commission_pct))

\* C1: a BUY of positive quantity and price is REJECTED when its total cost
\* (fill_price * quantity + commission) exceeds cash, and otherwise debits
\* cash by exactly that total; so cash >= 0 after the call whenever it was
\* >= 0 before it.
C1_BuyNeverOverdraws ==
    [][\A symbol \in Symbols, quantity \in ValidQuantities, price \in Prices,
          stop_loss \in StopLosses :
          PlacedOrder(symbol, "BUY", quantity, price, stop_loss) =>
              /\ IF RGt(BuyTotal(quantity, price), cash)
                 THEN result'.status = "REJECTED" /\ cash' = cash
                 ELSE result'.status = "FILLED"
                      /\ cash' = RSub(cash, BuyTotal(quantity, price))
              /\ RGe(cash, Zero) => RGe(cash', Zero)]_vars

\* A BUY was filled that spent the last of the cash.
C1_Witness ==
    /\ result.status = "FILLED"
    /\ result.side = "BUY"
    /\ cash = Zero
    /\ positions # {}

\* C2: a REJECTED place_order or close_position leaves cash, every position
\* and the trade log as they were.
C2_RejectionChangesNothing ==
    [][result'.status = "REJECTED" =>
          /\ cash' = cash
          /\ positions' = positions
          /\ trade_log' = trade_log]_vars

\* A BUY was rejected for insufficient funds on an account that holds
\* positions and a ledger.
C2_Witness ==
    /\ result.status = "REJECTED"
    /\ result.message = "Insufficient funds"
    /\ positions # {}
    /\ Len(trade_log) >= 2

\* C3: every stored position has quantity > 0, whatever quantities
\* place_order is sent.
C3_PositionsArePositive ==
    \A p \in positions : RGt(p.quantity, Zero)

\* The positions of the symbols other than symbol.
Others(ps, symbol) == {p \in ps : p.symbol # symbol}

\* No two stored positions share a symbol.
OnePerSymbol(ps) == \A p1, p2 \in ps : p1.symbol = p2.symbol => p1 = p2

\* C4: at most one position is stored per symbol, and a fill on one symbol
\* leaves the positions of the other symbols as they were.
C4_OnePositionPerSymbol ==
    [][/\ OnePerSymbol(positions')
       /\ result'.status = "FILLED" =>
             /\ Others(positions', result'.symbol) = Others(positions, result'.symbol)
             /\ Cardinality(positions') <= Cardinality(positions) + 1]_vars

\* Two symbols are held and the last fill was a BUY merged into one of them.
C4_Witness ==
    /\ Cardinality(positions) = 2
    /\ Len(trade_log) = 3
    /\ result.status = "FILLED"
    /\ result.side = "BUY"
    /\ \E p \in positions : p.symbol = result.symbol /\ p.quantity # result.quantity

\* C5: a SELL takes min(requested, open) off the position, which is removed
\* when nothing is left and never goes negative, and credits no more than the
\* fill price times the open quantity; close_position is REJECTED without a
\* position and otherwise FILLED as a SELL of the whole open quantity, after
\* which the symbol has no position.
C5_SellIsCapped ==
    [][/\ \A symbol \in Symbols, quantity \in ValidQuantities, price \in Prices :
            (HasPosition(positions, symbol)
                /\ PlacedOrder(symbol, "sell", quantity, price, None)) =>
                LET pos == PositionOf(positions, symbol)
                    fill_price == RMul(price, RSub(One, slippage_pct))
                IN  /\ result'.status = "FILLED"
                    /\ IF RLt(quantity, pos.quantity)
                       THEN /\ HasPosition(positions', symbol)
                            /\ PositionOf(positions', symbol).quantity
                                  = RSub(pos.quantity, quantity)
                       ELSE ~HasPosition(positions', symbol)
                    /\ RLe(RSub(cash', cash), RMul(fill_price, RMin(quantity, pos.quantity)))
       /\ \A p \in positions' : RGt(p.quantity, Zero) /\ p.side = "BUY"
       /\ \A symbol \in Symbols, price \in Prices :
            ClosedPosition(symbol, price) =>
                IF HasPosition(positions, symbol)
                THEN LET pos == PositionOf(positions, symbol)
                         fill_price == RMul(price, RSub(One, slippage_pct))
                     IN  /\ result'.status = "FILLED"
                         /\ result'.side = "SELL"
                         /\ result'.quantity = pos.quantity
                         /\ ~HasPosition(positions', symbol)
                         /\ Others(positions', symbol) = Others(positions, symbol)
                         /\ trade_log' = Append(trade_log, result')
                         /\ cash' = RAdd(cash, RMul(RMul(fill_price, pos.quantity),
                                                   RSub(One, commission_pct)))
                ELSE result'.status = "REJECTED" /\ cash' = cash]_vars

\* A SELL asked for more than the open quantity and was filled: the position
\* is gone.
C5_Witness ==
    /\ Len(trade_log) = 2
    /\ trade_log[1].side = "BUY"
    /\ trade_log[2].side = "SELL"
    /\ trade_log[1].symbol = trade_log[2].symbol
    /\ RGt(trade_log[2].quantity, trade_log[1].quantity)
    /\ positions = {}

\* The ledger entries of symbol.
RECURSIVE FillsOf(_, _)
FillsOf(log, symbol) ==
    IF log = <<>> THEN <<>>
    ELSE IF Head(log).symbol = symbol
         THEN <<Head(log)>> \o FillsOf(Tail(log), symbol)
         ELSE FillsOf(Tail(log), symbol)

\* sum(price * quantity) over ledger entries.
RECURSIVE Notional(_)
Notional(log) ==
    IF log = <<>> THEN Zero
    ELSE RAdd(RMul(Head(log).price, Head(log).quantity), Notional(Tail(log)))

\* sum(quantity) over ledger entries.
RECURSIVE Volume(_)
Volume(log) ==
    IF log = <<>> THEN Zero ELSE RAdd(Head(log).quantity, Volume(Tail(log)))

\* C6: a filled BUY of q at fill price f into a position of Q at entry E
\* leaves quantity Q+q and entry (E*Q + f*q)/(Q+q); while a symbol's ledger
\* holds BUY fills only, its entry price is the quantity-weighted average of
\* their fill prices.
C6_WeightedAverageEntry ==
    [][/\ \A symbol \in Symbols, quantity \in ValidQuantities, price \in Prices,
            stop_loss \in StopLosses :
            (HasPosition(positions, symbol)
                /\ result'.status = "FILLED"
                /\ PlacedOrder(symbol, "BUY", quantity, price, stop_loss)) =>
                LET pos == PositionOf(positions, symbol)
                    f == RMul(price, RAdd(One, slippage_pct))
                    new == PositionOf(positions', symbol)
                IN  /\ new.quantity = RAdd(pos.quantity, quantity)
                    /\ RMul(new.entry_price, new.quantity)
                          = RAdd(RMul(pos.entry_price, pos.quantity), RMul(f, quantity))
       /\ \A symbol \in Symbols :
            LET fills == FillsOf(trade_log', symbol)
            IN  (fills # <<>> /\ \A i \in 1..Len(fills) : fills[i].side = "BUY") =>
                    /\ HasPosition(positions', symbol)
                    /\ PositionOf(positions', symbol).quantity = Volume(fills)
                    /\ PositionOf(positions', symbol).entry_price
                          = RDiv(Notional(fills), Volume(fills))]_vars

\* 1 @ 10 then 2 @ 12 without slippage: quantity 3 at entry 34/3.
C6_Witness ==
    \E p \in positions : p.quantity = Int2R(3) /\ p.entry_price = Rat(34, 3)

\* current_price * quantity of the position of symbol, 0 without one.
MarketValue(symbol) ==
    IF HasPosition(positions, symbol)
    THEN RMul(PositionOf(positions, symbol).current_price,
              PositionOf(positions, symbol).quantity)
    ELSE Zero

\* C7: get_portfolio_value() is cash plus the sum of current_price * quantity
\* over the open positions, rounded to 2 decimals (so within 0.005 of it).
C7_PortfolioValue ==
    LET exact == RAdd(cash, RAdd(MarketValue("A"), MarketValue("B")))
        value == get_portfolio_value(Self)
    IN  /\ value = RRound(exact, 2)
        /\ RLe(RSub(value, exact), Rat(1, 200))
        /\ RLe(RSub(exact, value), Rat(1, 200))

\* Two positions are open, one marked away from its entry price, and the
\* exact value has more than 2 decimals.
C7_Witness ==
    /\ Cardinality(positions) = 2
    /\ \E p \in positions : p.current_price # p.entry_price
    /\ get_portfolio_value(Self) # RAdd(cash, PositionValue(positions))

\* C8: reset() leaves the state of a broker freshly constructed with the same
\* parameters (cash = initial_capital, no positions, empty trade log, the two
\* rates unchanged), and a second reset() changes nothing.
C8_ResetIsFresh ==
    [][Reset =>
          /\ Self' = PaperBrokerNew(initial_capital, commission_pct, slippage_pct)
          /\ cash' = initial_capital
          /\ positions' = {}
          /\ trade_log' = <<>>
          /\ commission_pct' = commission_pct
          /\ slippage_pct' = slippage_pct
          /\ initial_capital' = initial_capital
          /\ reset(Self') = Self']_vars

\* reset() has just run.
C8_Witness ==
    /\ result = Void("reset")
    /\ cash = initial_capital
    /\ trade_log = <<>>

-----------------------------------------------------------------------------
(* The risk sizer's properties.                                            *)

\* C10: assess_trade rejects by the first of its checks that matches, in the
\* order price <= 0 ("Invalid price"), open_position_count >=
\* max_open_positions, current_exposure / capital >= max_total_exposure
\* (equality included; the quotient is read for capital > 0), and each reason
\* is given only when the checks before it pass; every rejection carries
\* approved = False and 0 for size, stop-loss and risk amount.
C10_RejectionOrder ==
    risk_call.call = "assess_trade" =>
        LET a == risk_call
            r == risk_call.ret
            bad_price == RLe(a.price, Zero)
            too_many == a.open_position_count >= max_open_positions
            exposed == RGe(RDiv(a.current_exposure, capital), max_total_exposure)
        IN  /\ bad_price => r.reason = "Invalid price"
            /\ (~bad_price /\ too_many) => r.reason = "Max open positions reached"
            /\ RGt(capital, Zero) =>
                  /\ (~bad_price /\ ~too_many /\ exposed)
                        => r.reason = "Total exposure exceeds limit"
                  /\ r.reason = "Total exposure exceeds limit"
                        => (~bad_price /\ ~too_many /\ exposed)
            /\ r.reason = "Invalid price" => bad_price
            /\ r.reason = "Max open positions reached" => (~bad_price /\ too_many)
            /\ r.approved <=> r.reason = "Trade approved"
            /\ ~r.approved =>
                  /\ r.position_size = Zero
                  /\ r.stop_loss_price = Zero
                  /\ r.risk_amount = Zero

\* assess_trade was called with a price <= 0 while the position count and the
\* exposure (exactly at the limit) were breached too: "Invalid price".
C10_Witness ==
    /\ risk_call.call = "assess_trade"
    /\ RLe(risk_call.price, Zero)
    /\ risk_call.open_position_count >= max_open_positions
    /\ RGt(capital, Zero)
    /\ RDiv(risk_call.current_exposure, capital) = max_total_exposure
    /\ risk_call.ret.reason = "Invalid price"

\* The smallest of the three candidate sizes of an assessment at price with
\* current_exposure, before any rounding.
MinCandidate(price, current_exposure) ==
    RMin(RMin(RDiv(RMul(capital, risk_per_trade), RMul(price, stop_loss_pct)),
              RDiv(RMul(capital, max_position_pct), price)),
         RDiv(RSub(RMul(max_total_exposure, capital), current_exposure), price))

\* C11: an approved assessment returns a strictly positive position_size
\* equal to the minimum of the three candidates, so that size * price <=
\* capital * max_position_pct and current_exposure + size * price <=
\* max_total_exposure * capital; a minimum <= 0 is rejected.
C11_ApprovedSizeIsCappedMinimum ==
    (risk_call.call = "assess_trade" /\ risk_call.ret.approved) =>
        LET a == risk_call
            size == risk_call.ret.position_size
        IN  /\ RGt(size, Zero)
            /\ size = MinCandidate(a.price, a.current_exposure)
            /\ RLe(RMul(size, a.price), RMul(capital, max_position_pct))
            /\ RLe(RAdd(a.current_exposure, RMul(size, a.price)),
                   RMul(max_total_exposure, capital))

\* The circuit-breaker condition at a peak equity: the capital is more than
\* 20% under a positive peak.
BreakerCondition(peak) ==
    /\ RGt(peak, Zero)
    /\ RLt(RDiv(RSub(capital, peak), peak), Rat(-20, 100))

\* C12: check_drawdown is advisory: it reports circuit_breaker exactly when
\* (capital - peak_equity) / peak_equity < -0.20 (drawdown 0 for a peak
\* <= 0), it changes no field of the RiskManager, and an assess_trade that
\* follows a tripped circuit breaker approves exactly as its own checks say.
C12_DrawdownIsAdvisory ==
    [][/\ risk_call'.call = "check_drawdown" =>
            /\ risk_call'.ret.circuit_breaker <=> BreakerCondition(risk_call'.peak_equity)
            /\ RLe(risk_call'.peak_equity, Zero) => risk_call'.ret.drawdown_pct = Zero
            /\ RiskSelf' = RiskSelf
       /\ (/\ risk_call.call = "check_drawdown"
           /\ risk_call.ret.circuit_breaker
           /\ risk_call'.call = "assess_trade") =>
            (risk_call'.ret.approved <=>
                /\ RGt(risk_call'.price, Zero)
                /\ risk_call'.open_position_count < max_open_positions
                /\ RLt(ExposureRatio(RiskSelf, risk_call'.current_exposure), max_total_exposure)
                /\ RGt(PositionSize(RiskSelf, risk_call'.price, risk_call'.current_exposure), Zero))
      ]_vars

\* A trade was approved while the capital is more than 20% under a peak of
\* 130, for which check_drawdown reports the circuit breaker.
C12_Witness ==
    /\ risk_call.call = "assess_trade"
    /\ risk_call.ret.approved
    /\ BreakerCondition(Int2R(130))
    /\ check_drawdown(RiskSelf, Int2R(130)).circuit_breaker

-----------------------------------------------------------------------------
(* Claims about BacktestEngine.                                            *)

\* C9: replay is deterministic and carries no state between runs: every
\* call of run on the same engine with the same bar series returns the same
\* BacktestResult (same trades, same equity curve, same statistics).
C9_ReplayIsDeterministic ==
    \A i, j \in 1..Len(results) : results[i] = results[j]

\* run has returned twice on an engine whose first run traded, ended with a
\* capital other than the initial one and liquidated a position at the end.
C9_Witness ==
    /\ Len(results) >= 2
    /\ frame.pc = "returned"
    /\ RGt(frame.position_qty, Zero)
    /\ results[1].total_trades >= 2
    /\ results[1].final_equity # results[1].initial_capital

\* The step is one iteration of run's loop, over the bar frame.i.
BarStep == frame.pc = "loop" /\ frame'.pc = "loop" /\ frame'.i = frame.i + 1

\* The engine holds a position and the close of bar i is at or under its
\* stop price.
StopLossHit(f, i) ==
    /\ RGt(f.position_qty, Zero)
    /\ RLe(df[i], RMul(f.entry_price, RSub(One, engine.stop_loss_pct)))

\* C13: on a bar where the engine is LONG, the close is at or under the stop
\* price and the signal is SELL, exactly one trade is recorded: the stop-loss
\* exit of the position at that bar; capital changes by that exit's PnL only
\* and the bar ends FLAT.
C13_StopLossBeforeSell ==
    [][(/\ BarStep
        /\ StopLossHit(frame, frame.i)
        /\ SignalAt(signals, frame.i) = "SELL") =>
            /\ frame'.trades = Append(frame.trades, ExitTrade(engine, frame, df[frame.i], frame.i))
            /\ frame'.capital = RAdd(frame.capital, ExitPnl(engine, frame, df[frame.i]))
            /\ frame'.position_qty = Zero
      ]_vars

\* A bar carrying a SELL signal has just been processed: its close was at or
\* under the stop price of the position entered on an earlier bar, and the
\* ledger's last trade is that position's exit on this bar.
C13_Witness ==
    /\ frame.pc = "loop"
    /\ frame.i > 2
    /\ SignalAt(signals, frame.i - 1) = "SELL"
    /\ frame.trades # <<>>
    /\ LET t == frame.trades[Len(frame.trades)]
       IN  /\ t.exit_time = frame.i - 1
           /\ t.entry_time < frame.i - 1
           /\ RLe(df[frame.i - 1], RMul(t.entry_price, RSub(One, engine.stop_loss_pct)))
    /\ frame.position_qty = Zero

\* The dates of the curve are the bars 1, 2, ... in order.
InBarOrder(curve) == \A k \in 1..Len(curve) : curve[k].date = k

\* C14: replay appends exactly one equity point per bar, in bar order,
\* whatever happened on the bar; the returned curve has as many points as
\* the series has bars, the forced liquidation adding none.
C14_OneEquityPointPerBar ==
    /\ frame.pc = "loop" =>
          /\ Len(frame.equity_curve) = frame.i - 1
          /\ InBarOrder(frame.equity_curve)
    /\ frame.pc = "returned" =>
          /\ Len(frame.equity_curve) = Len(df)
          /\ InBarOrder(frame.equity_curve)
          /\ results[Len(results)].equity_curve = frame.equity_curve

\* run has returned after a stop-loss exit with re-entry on one bar and a
\* forced liquidation at the end; the series has three bars.
C14_Witness ==
    /\ frame.pc = "returned"
    /\ Len(df) = 3
    /\ RGt(frame.position_qty, Zero)
    /\ Len(frame.trades) >= 2
    /\ frame.trades[1].exit_time = frame.trades[2].entry_time
    /\ Len(results[Len(results)].equity_curve) = 3

\* 1 while the run holds a position, 0 while it is flat.
OpenCount(f) == IF f.pc = "loop" /\ RGt(f.position_qty, Zero) THEN 1 ELSE 0

\* 1 when the bar just processed opened the position now held.
EnteredOn(f, i) == IF RGt(f.position_qty, Zero) /\ f.entry_time = i THEN 1 ELSE 0

\* Each trade's entry bar is not after its exit bar, and a trade's exit bar
\* is not after the next trade's entry bar.
ChronologicallyDisjoint(trades) ==
    /\ \A k \in 1..Len(trades) : trades[k].entry_time <= trades[k].exit_time
    /\ \A k \in 1..(Len(trades) - 1) : trades[k].exit_time <= trades[k + 1].entry_time

\* The step is the end of run: the loop is over and the result is returned.
ReturnStep == frame.pc = "loop" /\ frame'.pc = "returned"

\* C15: every position opened during replay is closed exactly once.  Over
\* each bar the closed trades plus the open position grow by the entries of
\* that bar; at the return the position still open is liquidated at the last
\* bar's close, so that the ledger has one trade per entry and nothing is
\* left open; the ledger's trades are chronologically disjoint.
C15_EveryPositionClosedOnce ==
    [][/\ BarStep =>
            /\ Len(frame'.trades) + OpenCount(frame')
                    = Len(frame.trades) + OpenCount(frame) + EnteredOn(frame', frame.i)
            /\ ChronologicallyDisjoint(frame'.trades)
            /\ (RGt(frame'.position_qty, Zero) /\ frame'.trades # <<>>) =>
                    frame'.trades[Len(frame'.trades)].exit_time <= frame'.entry_time
       /\ ReturnStep =>
            /\ Len(frame'.trades) = Len(frame.trades) + OpenCount(frame)
            /\ OpenCount(frame) = 1 =>
                    frame'.trades[Len(frame'.trades)] =
                        ExitTrade(engine, frame, df[Len(df)], Len(df))
            /\ ChronologicallyDisjoint(frame'.trades)
            /\ results'[Len(results')].trades = frame'.trades
            /\ results'[Len(results')].total_trades = Len(frame'.trades)
      ]_vars

\* run has returned a ledger of two trades or more whose last trade is the
\* liquidation of a position opened on the last bar itself.
C15_Witness ==
    /\ frame.pc = "returned"
    /\ Len(frame.trades) >= 2
    /\ frame.trades[Len(frame.trades)].entry_time = Len(df)
    /\ frame.trades[Len(frame.trades)].exit_time = Len(df)
    /\ results[Len(results)].trades = frame.trades

-----------------------------------------------------------------------------
(* Claims about the statistics of a BacktestResult.                        *)

\* The sum of the PnL of the trades with PnL > 0 among the first n.
RECURSIVE WinningPnl(_, _)
WinningPnl(trades, n) ==
    IF n = 0 THEN Zero
    ELSE RAdd(WinningPnl(trades, n - 1),
              IF RGt(trades[n].pnl, Zero) THEN trades[n].pnl ELSE Zero)

\* The sum of |PnL| of the trades with PnL <= 0 among the first n.
RECURSIVE LosingPnl(_, _)
LosingPnl(trades, n) ==
    IF n = 0 THEN Zero
    ELSE RAdd(LosingPnl(trades, n - 1),
              IF RLe(trades[n].pnl, Zero) THEN RNeg(trades[n].pnl) ELSE Zero)

\* The ledger holds a trade with PnL <= 0.
HasLosingTrade(trades) == \E k \in 1..Len(trades) : RLe(trades[k].pnl, Zero)

\* The results run has returned.
Returned == {results[k] : k \in 1..Len(results)}

\* C16 as stated: the profit factor is sum(winning PnL) / sum(|losing PnL|)
\* whenever the ledger holds a losing trade (PnL <= 0), and the sentinel
\* 9999.99 exactly when it holds none.
C16_ProfitFactorByLosingTrades ==
    \A r \in Returned :
        /\ HasLosingTrade(r.trades) =>
              /\ RGt(LosingPnl(r.trades, Len(r.trades)), Zero)
              /\ r.profit_factor = RDiv(WinningPnl(r.trades, Len(r.trades)),
                                        LosingPnl(r.trades, Len(r.trades)))
        /\ r.profit_factor = Rat(999999, 100) <=> ~HasLosingTrade(r.trades)

\* C16 (amended): the profit factor is sum(winning PnL) / sum(|losing PnL|)
\* whenever the losing PnL sums to more than 0, and the sentinel 9999.99
\* whenever it sums to 0: with no losing trade, and also when every losing
\* trade has a PnL of exactly 0.
C16_ProfitFactorByLosingSum ==
    \A r \in Returned :
        IF RGt(LosingPnl(r.trades, Len(r.trades)), Zero)
        THEN r.profit_factor = RDiv(WinningPnl(r.trades, Len(r.trades)),
                                    LosingPnl(r.trades, Len(r.trades)))
        ELSE r.profit_factor = Rat(999999, 100)

\* run has returned a ledger with a winning and a losing trade, whose profit
\* factor is their quotient, not the sentinel.
C16_Witness ==
    \E r \in Returned :
        /\ \E k \in 1..Len(r.trades) : RGt(r.trades[k].pnl, Zero)
        /\ \E k \in 1..Len(r.trades) : RLt(r.trades[k].pnl, Zero)
        /\ r.profit_factor # Rat(999999, 100)
        /\ RGt(r.profit_factor, Zero)

\* The number of trades among the first n with PnL > 0.
RECURSIVE CountWins(_, _)
CountWins(trades, n) ==
    IF n = 0 THEN 0
    ELSE CountWins(trades, n - 1) + (IF RGt(trades[n].pnl, Zero) THEN 1 ELSE 0)

\* C17: a trade is a win iff its PnL > 0 and a loss otherwise (a PnL of
\* exactly 0 is a loss), so winning_trades + losing_trades = total_trades;
\* win_rate = winning_trades / total_trades, and 0 without trades.
C17_WinsAndLossesPartition ==
    \A r \in Returned :
        /\ r.total_trades = Len(r.trades)
        /\ r.winning_trades = CountWins(r.trades, Len(r.trades))
        /\ r.losing_trades = Len(r.trades) - CountWins(r.trades, Len(r.trades))
        /\ r.winning_trades + r.losing_trades = r.total_trades
        /\ r.win_rate = IF r.total_trades = 0 THEN Zero
                        ELSE Rat(r.winning_trades, r.total_trades)

\* run has returned a ledger of one win and one loss: win rate 1/2.
C17_Witness ==
    \E r \in Returned :
        /\ r.total_trades = 2
        /\ r.winning_trades = 1
        /\ r.losing_trades = 1
        /\ r.win_rate = Rat(1, 2)

\* C18: a degenerate replay still gives a report.  Without trades the result
\* has total_trades 0, win_rate 0, profit_factor 9999.99, max drawdown 0 and
\* a final equity equal to the initial capital; with fewer than 2 equity
\* points Sharpe, annualized return and max drawdown are 0; and the max
\* drawdown is never positive.
C18_DegenerateReports ==
    \A r \in Returned :
        /\ r.trades = <<>> =>
              /\ r.total_trades = 0
              /\ r.win_rate = Zero
              /\ r.profit_factor = Rat(999999, 100)
              /\ r.max_drawdown_pct = Zero
              /\ r.final_equity = r.initial_capital
        /\ Len(r.equity_curve) < 2 =>
              /\ r.sharpe_ratio = Zero
              /\ r.annualized_return_pct = Zero
              /\ r.max_drawdown_pct = Zero
        /\ RLe(r.max_drawdown_pct, Zero)

\* run has returned without a trade from a series of several bars whose
\* signals (SELL while FLAT, or for no bar) had no effect.
C18_Witness ==
    \E r \in Returned :
        /\ r.trades = <<>>
        /\ Len(r.equity_curve) >= 2
        /\ signals # <<>>
        /\ r.profit_factor = Rat(999999, 100)

-----------------------------------------------------------------------------
(* Claims about TradingService.                                            *)

\* The step is one iteration of process_bar's loop.
SignalStep == bar.pc = "loop" /\ bar'.n = bar.n + 1

\* The assessment the risk manager gives the signal in the current state.
AssessmentOf(sig) ==
    assess_trade(RiskSelf, sig.price, "BUY", PositionValue(get_positions(Self)),
                 Cardinality(get_positions(Self)))

\* C19: process_bar routes every BUY signal through assess_trade before any
\* broker call, the broker not being asked when the assessment is not
\* approved, and every SELL signal straight to close_position without a
\* risk check, so that a SELL on a symbol with an open position is FILLED;
\* every non-HOLD signal adds one to executed + rejected and one record to
\* details, so that executed + rejected is the number of non-HOLD signals.
C19_SignalsAreRouted ==
    [][SignalStep =>
        /\ bar'.sig.signal = "BUY" =>
              /\ bar'.assessment = AssessmentOf(bar'.sig)
              /\ ~bar'.assessment.approved =>
                    /\ UNCHANGED brokerVars
                    /\ bar'.details[Len(bar'.details)].status = "REJECTED"
              /\ bar'.assessment.approved =>
                    result' = place_order(Self, bar'.sig.symbol, "BUY",
                                          bar'.assessment.position_size, bar'.sig.price,
                                          bar'.assessment.stop_loss_price).ret
        /\ bar'.sig.signal = "SELL" =>
              /\ UNCHANGED <<risk_per_trade, stop_loss_pct, max_position_pct,
                             max_open_positions, max_total_exposure>>
              /\ bar'.assessment = bar.assessment
              /\ result' = close_position(Self, bar'.sig.symbol, bar'.sig.price).ret
              /\ HasPosition(positions, bar'.sig.symbol) =>
                    /\ result'.status = "FILLED"
                    /\ bar'.executed = bar.executed + 1
        /\ bar'.sig.signal = "HOLD" =>
              /\ bar'.executed + bar'.rejected = bar.executed + bar.rejected
              /\ bar'.details = bar.details
        /\ bar'.sig.signal # "HOLD" =>
              /\ bar'.pc = "loop"
              /\ bar'.executed + bar'.rejected = bar.executed + bar.rejected + 1
              /\ Len(bar'.details) = Len(bar.details) + 1
              /\ bar'.executed + bar'.rejected = bar'.seen
              /\ Len(bar'.details) = bar'.seen
      ]_vars

\* The step is an iteration of process_bar's loop that added a detail record
\* of the given status.
AnsweredStep(status) ==
    /\ SignalStep
    /\ Len(bar'.details) = Len(bar.details) + 1
    /\ bar'.details[Len(bar'.details)].status = status

\* C20: in process_bar, right after every FILLED order (BUY or SELL) the
\* RiskManager's capital is the broker's get_balance(), the cash rounded to
\* cents; a risk rejection and a REJECTED order leave the capital as it was.
C20_CapitalFollowsFills ==
    [][/\ AnsweredStep("FILLED") => capital' = RRound(cash', 2)
       /\ AnsweredStep("REJECTED") => capital' = capital
      ]_vars

\* An order of process_bar has just been FILLED on an account whose cash has
\* more than two decimals: the capital is the rounded balance.
C20_Witness ==
    /\ bar.pc = "loop"
    /\ bar.details # <<>>
    /\ bar.details[Len(bar.details)].status = "FILLED"
    /\ result.status = "FILLED"
    /\ capital = RRound(cash, 2)
    /\ capital # cash

-----------------------------------------------------------------------------
(* Claims about concurrent callers of the paper account.                   *)

\* Thread t returns from place_order in this step.
ThreadReturns(t) == threads[t].pc # "returned" /\ threads'[t].pc = "returned"

\* What the call of a thread with locals L does when nothing interleaves.
Uninterrupted(L) ==
    place_order(L.before, L.symbol, "BUY", L.quantity, L.price, L.stop_loss)

\* C21: when the place_order calls on one account are serialized, no step
\* makes a non-negative cash negative and every call returns having done to
\* the account exactly what an uninterrupted place_order does (so no debit
\* and no quantity is lost).  Without serialization two BUYs can both pass
\* the funds check before either debits, leaving cash negative, and two
\* merges into one position can lose a quantity: C21_Witness is such a state.
C21_SerializedCallsAreAtomic ==
    [][serialized =>
          /\ RGe(cash, Zero) => RGe(cash', Zero)
          /\ \A t \in Threads :
                ThreadReturns(t) =>
                    /\ Self' = Uninterrupted(threads'[t]).self
                    /\ result' = Uninterrupted(threads'[t]).ret]_vars

\* Unserialized, two threads found the same account, both passed the funds
\* check and merged into the same position: cash is negative and the
\* position holds the quantity of one of the two BUYs only.
C21_Witness ==
    /\ ~serialized
    /\ \A t \in Threads :
          /\ threads[t].pc = "returned"
          /\ threads[t].ret.status = "FILLED"
          /\ threads[t].branch = "merge"
    /\ threads[1].before = threads[2].before
    /\ threads[1].symbol = threads[2].symbol
    /\ RGe(threads[1].before.cash, Zero)
    /\ RLt(cash, Zero)
    /\ PositionOf(positions, threads[1].symbol).quantity
          = RAdd(PositionOf(threads[1].before.positions, threads[1].symbol).quantity,
                 threads[2].quantity)

-----------------------------------------------------------------------------
(* Claims about the crossover scenario.                                    *)

\* C22: the run of the crossover scenario returns a ledger with at least
\* one trade (a BUY entry that was exited), a final equity different from
\* the initial capital, and an equity curve of 60 points.
C22_CrossoverRoundTrip ==
    frame.pc = "returned" =>
        LET r == results[Len(results)]
        IN  /\ Len(r.trades) >= 1
            /\ r.final_equity # RRound(engine.initial_capital, 2)
            /\ Len(r.equity_curve) = 60

-----------------------------------------------------------------------------
(* Claims about the paper account's mark prices.                           *)

\* The step is a call update_price(symbol, price).
UpdatedPrice(symbol, price) ==
    /\ result' = Void("update_price")
    /\ SetBroker(update_price(Self, symbol, price))

\* C23: a fill on a symbol that already has a position (a BUY merged into
\* it, a partial SELL) leaves that position's current_price as it was, and
\* update_price(symbol, p) sets the current_price of that symbol's position
\* to p and changes nothing else: cash, the ledger, the other positions and
\* the position's quantity, entry price and stop-loss stay, and nothing at
\* all changes when the symbol has no position.
C23_MarksChangeOnlyByUpdatePrice ==
    [][/\ result'.status = "FILLED" =>
             \A p \in positions, q \in positions' :
                 p.symbol = q.symbol => q.current_price = p.current_price
       /\ \A symbol \in Symbols, price \in MarkPrices :
             UpdatedPrice(symbol, price) =>
                 /\ cash' = cash
                 /\ trade_log' = trade_log
                 /\ Others(positions', symbol) = Others(positions, symbol)
                 /\ IF HasPosition(positions, symbol)
                    THEN LET p == PositionOf(positions, symbol)
                         IN  positions' \ Others(positions, symbol) =
                                 {OpenPosition(symbol, p.side, p.quantity, p.entry_price,
                                               price, p.stop_loss)}
                    ELSE positions' = positions]_vars

\* A position marked to 11 by update_price has since taken a BUY merge (or a
\* partial SELL) at another price and still carries the mark, next to a
\* second position that was never marked.
C23_Witness ==
    /\ slippage_pct = Zero
    /\ result.status = "FILLED"
    /\ Len(trade_log) >= 2
    /\ \E p \in positions :
          /\ p.symbol = result.symbol
          /\ p.current_price = Int2R(11)
          /\ p.entry_price # Int2R(11)
    /\ Cardinality(positions) = 2

-----------------------------------------------------------------------------
(* Claims about the replay's accounting.                                   *)

\* The equity point the bar step has just appended.
LastPoint(f) == f.equity_curve[Len(f.equity_curve)]

\* C24: the equity recorded for a bar is the account's worth at its close:
\* the running capital (initial capital plus realized PnL less entry
\* commissions) plus the open position's unrealized PnL
\* quantity * (close - entry_price); with zero slippage and commission the
\* bar that opens a position records the same equity as the capital before
\* it; and a run that ends LONG returns a final_equity equal to its last
\* equity point.
C24_EquityIsTrueWorth ==
    [][/\ BarStep =>
             /\ LastPoint(frame').equity =
                    RRound(RAdd(frame'.capital,
                                RMul(frame'.position_qty,
                                     RSub(df[frame.i], frame'.entry_price))), 2)
             /\ (/\ engine.commission_pct = Zero
                 /\ engine.slippage_pct = Zero
                 /\ frame.position_qty = Zero
                 /\ RGt(frame'.position_qty, Zero)) =>
                    LastPoint(frame').equity = RRound(frame.capital, 2)
       /\ (ReturnStep /\ RGt(frame.position_qty, Zero)) =>
             LastPoint(frame').equity = results'[Len(results')].final_equity]_vars

-----------------------------------------------------------------------------
(* Claims about the paper account's cash.                                  *)

\* C25: with positive order quantities and prices and rates in [0, 1), cash
\* is never negative, and a FILLED SELL, also one that asks for more than
\* the open quantity, never decreases cash.
C25_CashNeverNegative ==
    [][/\ RGe(cash', Zero)
       /\ (result'.status = "FILLED" /\ result'.side = "SELL") => RGe(cash', cash)]_vars

\* The bar step leaves position quantity, entry price, capital and the
\* ledger as they were.
PositionUntouched ==
    /\ frame'.position_qty = frame.position_qty
    /\ frame'.entry_price = frame.entry_price
    /\ frame'.capital = frame.capital
    /\ frame'.trades = frame.trades

\* C26: on a bar whose close does not trigger the stop-loss, a BUY signal
\* while LONG and a SELL or HOLD signal while FLAT leave position quantity,
\* entry price, capital and the ledger unchanged, so that only a BUY while
\* FLAT and a SELL while LONG have an effect; and the position quantity is
\* never negative.
C26_FlatLongTransitions ==
    [][BarStep =>
          LET sig == SignalAt(signals, frame.i)
              long == RGt(frame.position_qty, Zero)
          IN  /\ ~StopLossHit(frame, frame.i) =>
                    /\ (sig = "BUY" /\ long) => PositionUntouched
                    /\ (sig \in {"SELL", "HOLD"} /\ ~long) => PositionUntouched
                    /\ ~PositionUntouched =>
                          \/ sig = "BUY" /\ frame.position_qty = Zero
                          \/ sig = "SELL" /\ long
              /\ RGe(frame'.position_qty, Zero)]_vars

\* The second bar carried a BUY signal at another close while the position
\* opened on the first bar was held: it is still the position of bar 1.
C26_Witness ==
    /\ frame.pc = "loop"
    /\ frame.i = 3
    /\ SignalAt(signals, 2) = "BUY"
    /\ df[2] # df[1]
    /\ RGt(frame.position_qty, Zero)
    /\ frame.entry_time = 1
    /\ frame.trades = <<>>


\* C27: a bar on which the stop-loss exit fires ends FLAT: no position is
\* opened on that bar, whatever its signal.
C27_StopLossBarEndsFlat ==
    [][(BarStep /\ StopLossHit(frame, frame.i)) => frame'.position_qty = Zero]_vars


\* C28: the running capital moves only by the PnL of the trades entered in
\* the ledger: a step of the run that records no trade leaves capital as it
\* was, and a step that records a trade changes capital by that trade's
\* unrounded PnL (whose 2-decimal rounding is the recorded pnl), so that the
\* final capital is the initial capital plus the PnL of all ledger trades.
C28_LedgerAccountsForCapital ==
    [][(BarStep \/ ReturnStep) =>
          /\ frame'.trades = frame.trades => frame'.capital = frame.capital
          /\ frame'.trades # frame.trades =>
                /\ Len(frame'.trades) = Len(frame.trades) + 1
                /\ RRound(RSub(frame'.capital, frame.capital), 2)
                      = frame'.trades[Len(frame'.trades)].pnl]_vars


(* Claims about the replay's entry sizing. *)

\* The locals of run() when the signal handling of bar frame.i begins.
AtSignal == StopLossCheck(engine, frame, df[frame.i], frame.i)

\* The bar being replayed carries a BUY signal and the run is FLAT when the
\* signal is handled.
FlatBuy == SignalAt(signals, frame.i) = "BUY" /\ AtSignal.position_qty = Zero

\* C29: a BUY signal handled while FLAT is sized as
\* min(capital*risk_per_trade / (buy_price*stop_loss_pct),
\* 0.95*capital / buy_price) with buy_price = close*(1 + slippage_pct); the
\* position is opened with that quantity at that price when the quantity is
\* positive and not at all otherwise, its notional is at most 95% of the
\* running capital, and nothing is opened on a capital <= 0.
C29_EntrySizing ==
    [][(BarStep /\ FlatBuy) =>
          LET running == AtSignal.capital
              buy_price == RMul(df[frame.i], RAdd(One, engine.slippage_pct))
              by_risk == RDiv(RMul(running, engine.risk_per_trade),
                              RMul(buy_price, engine.stop_loss_pct))
              by_cap == RDiv(RMul(Rat(95, 100), running), buy_price)
              quantity == IF RLe(by_risk, by_cap) THEN by_risk ELSE by_cap
          IN  /\ RGt(quantity, Zero) =>
                    /\ frame'.position_qty = quantity
                    /\ frame'.entry_price = buy_price
                    /\ frame'.entry_time = frame.i
                    /\ RLe(RMul(frame'.position_qty, buy_price),
                           RMul(Rat(95, 100), running))
              /\ ~RGt(quantity, Zero) => frame'.position_qty = Zero
              /\ RLe(running, Zero) => frame'.position_qty = Zero]_vars

\* A BUY signal has been handled on a negative running capital (the position
\* opened on bar 1 was closed at a loss larger than the capital) and the run
\* is FLAT after it.
C29_Witness ==
    /\ frame.pc = "loop"
    /\ frame.i >= 3
    /\ SignalAt(signals, frame.i - 1) = "BUY"
    /\ Len(frame.trades) = 1
    /\ RLt(frame.capital, Zero)
    /\ frame.position_qty = Zero


(* Claims about the matching of signals to bars. *)

\* The signals whose timestamp equals the timestamp of bar i.
SignalsOfBar(i) == SelectSeq(signals, LAMBDA s : Instant(s[1]) = i)

\* The signal a bar is handled with when signals are matched by timestamp
\* equality: the last one of the bar's timestamp, HOLD without one.
MatchedSignal(i) ==
    IF SignalsOfBar(i) = <<>> THEN "HOLD"
    ELSE SignalsOfBar(i)[Len(SignalsOfBar(i))][2]

C31_SellReportsExecution ==
    [][\A symbol \in Symbols, quantity \in OversellQuantities,
          price \in Prices, stop_loss \in StopLosses :
            (HasPosition(positions, symbol)
                /\ PlaceOrderCall(symbol, "sell", quantity, price, stop_loss)) =>
                LET pos == PositionOf(positions, symbol)
                    fill_price == RMul(price, RSub(One, slippage_pct))
                    sell_qty == IF RLe(quantity, pos.quantity)
                                THEN quantity ELSE pos.quantity
                IN  /\ result'.status = "FILLED"
                    /\ result'.quantity = sell_qty
                    /\ result'.commission
                          = RRound(RMul(RMul(fill_price, sell_qty), commission_pct), 4)]_vars


\* The step appended a FILLED order of the given side to the trade log.
FilledNow(side) ==
    /\ trade_log' = Append(trade_log, result')
    /\ result'.status = "FILLED"
    /\ result'.side = side

\* C32: a FILLED BUY changes the portfolio value (cash plus the positions at
\* their mark prices) by exactly minus its commission, whether it opens a
\* position or merges into one, and no fill increases the portfolio value.
C32_BuyCostsItsCommission ==
    [][/\ FilledNow("BUY") =>
            RAdd(cash', PositionValue(positions'))
               = RSub(RAdd(cash, PositionValue(positions)), result'.commission)
       /\ (FilledNow("BUY") \/ FilledNow("SELL")) =>
            RLe(RAdd(cash', PositionValue(positions')),
                RAdd(cash, PositionValue(positions)))]_vars


(* Claims about the service's peak. *)

\* The step processed one signal of the list, and it was not a HOLD.
ProcessedSignal ==
    /\ bar.pc = "loop"
    /\ bar'.pc = "loop"
    /\ bar'.n = bar.n + 1
    /\ bar'.sig.signal # "HOLD"

\* C33: peak_equity never decreases, and after every processed non-HOLD
\* signal it is at least the broker's portfolio value.
C33_PeakCoversPortfolio ==
    [][/\ (peak_equity # None /\ peak_equity' # None) => RGe(peak_equity', peak_equity)
       /\ ProcessedSignal =>
            RGe(peak_equity', RRound(RAdd(cash', PositionValue(positions')), 2))]_vars


\* C34: between two process_bar calls, with the risk manager's capital in
\* step with the broker's balance, the drawdown_pct of get_performance is
\* the fractional decline of the portfolio value from the tracked peak (to 6
\* decimals): it is 0 when the portfolio value equals the peak, and it is
\* below -0.20 only when the portfolio value is more than 20% under the peak.
C34_DrawdownOfPortfolio ==
    (/\ bar.pc \in {"idle", "returned"}
     /\ RGt(peak_equity, Zero)
     /\ capital = get_balance(Self)) =>
        LET perf == get_performance(World)
            decline == RDiv(RSub(perf.portfolio_value, peak_equity), peak_equity)
        IN  /\ perf.drawdown_pct = RRound(decline, 6)
            /\ RLt(perf.drawdown_pct, CircuitBreakerLevel) =>
                  RLt(decline, CircuitBreakerLevel)


(* Claims about the sizer and the broker's funds check. *)

\* C35: with the risk manager's capital equal to the broker's cash and
\* max_position_pct * (1 + slippage_pct) * (1 + commission_pct) <= 1, a BUY
\* the risk manager approves is FILLED by the broker.
C35_ApprovedBuyIsFilled ==
    [][(/\ ProcessedSignal
        /\ capital = cash
        /\ RLe(RMul(max_position_pct,
                    RMul(RAdd(One, slippage_pct), RAdd(One, commission_pct))), One)
        /\ bar'.sig.signal = "BUY"
        /\ bar'.assessment.approved) =>
            /\ result'.status = "FILLED"
            /\ trade_log' = Append(trade_log, result')]_vars


(* Claims about the limit on open positions. *)

\* C36: with every order routed by process_bar, the account never holds
\* more than max_open_positions positions, and a BUY signal processed while
\* it holds that many is rejected without touching the account, whether or
\* not its symbol already has a position.
C36_OpenPositionsLimit ==
    [][/\ Cardinality(positions') <= max_open_positions
       /\ (/\ ProcessedSignal
           /\ bar'.sig.signal = "BUY"
           /\ Cardinality(positions) >= max_open_positions) =>
             /\ bar'.rejected = bar.rejected + 1
             /\ bar'.executed = bar.executed
             /\ bar'.details[Len(bar'.details)].status = "REJECTED"
             /\ UNCHANGED <<cash, positions, trade_log>>]_vars

\* A BUY on the symbol of the one position allowed has just been rejected
\* for the limit.
C36_Witness ==
    /\ bar.pc = "loop"
    /\ bar.n > 0
    /\ bar.sig.signal = "BUY"
    /\ HasPosition(positions, bar.sig.symbol)
    /\ Cardinality(positions) = max_open_positions
    /\ bar.details # <<>>
    /\ bar.details[Len(bar.details)].status = "REJECTED"
    /\ bar.details[Len(bar.details)].signal = "BUY"
    /\ ~bar.assessment.approved


(* Claims about the crossover strategy's signals. *)

\* C37: the signals MovingAverageCrossover.generate_signals returns are BUY
\* and SELL in strictly increasing timestamp order and strictly alternating
\* direction; none is on or before the first bar at which both moving
\* averages are defined; and there is none at all for a series of fewer
\* than long_window bars.
C37_SignalsAlternate ==
    frame.pc # "idle" =>
        LET short == engine.strategy.short_window
            long == engine.strategy.long_window
            first == IF short > long THEN short ELSE long
        IN  /\ \A k \in 1..Len(signals) :
                  /\ signals[k][2] \in {"BUY", "SELL"}
                  /\ signals[k][1] \in (first + 1)..Len(df)
            /\ \A k \in 1..(Len(signals) - 1) :
                  /\ signals[k][1] < signals[k + 1][1]
                  /\ signals[k][2] # signals[k + 1][2]
            /\ Len(df) < long => signals = <<>>

\* The strategy returned a SELL, a BUY and a SELL again, the first of them
\* on the bar after the first one with both averages.
C37_Witness ==
    /\ frame.pc = "returned"
    /\ Len(signals) = 3
    /\ signals[1][2] = "SELL"
    /\ signals[2][2] = "BUY"
    /\ signals[3][2] = "SELL"
    /\ signals[1][1] = engine.strategy.long_window + 1

=============================================================================
